---- MODULE Spec2Model ----
(***************************************************************************)
(* Model of ebkalderon/dss-coding-assignment:                              *)
(*   - the retained-mode widget cache   (src/src/app/widget.rs)            *)
(*   - the background fetch engine      (src/src/fetcher.rs)               *)
(* The two components share no state, so each has its own specification    *)
(* (SpecWidgets, SpecFetcher) over the variables it owns.                  *)
(***************************************************************************)
EXTENDS Integers, Sequences, FiniteSets, TLC

VARIABLES
    \* ---- Widgets<'tc, W> (src/src/app/widget.rs:157-161)
    cache,          \* WidgetId -> CacheEntry (parent, children, widget properties)
    next_id,        \* the identifier the next insert returns
    wstatus,        \* "ok", or "panicked" once an expect()/borrow check aborted
    insertLog,      \* history: the <<id, parent>> pairs returned by insert, in call order
    lastOp,         \* history: the last operation applied to the widget cache
    nTranslates,    \* history: translate calls made with a non-zero delta
    drawLog,        \* history: what the last operation, if a render pass, did per node
    \* ---- Fetcher and its worker thread (src/src/fetcher.rs)
    engine,         \* the Fetcher handle: "alive", "dropping" (inside Drop::drop), "dropped"
    worker,         \* the worker thread: "starting", "running", "panicked", "exited"
    aborted,        \* the flag shared by remote_task (AbortHandle) and the Abortable
    request_ch,     \* request channel, request_tx -> incoming (capacity MAX_CHANNEL_CAP)
    response_ch,    \* response channel, outgoing -> response_rx (capacity MAX_CHANNEL_CAP)
    download_cache, \* DownloadCache: Url -> absent | Pending | Ready(Ok(path)) | Ready(Err)
    tasks,          \* the process() tasks spawned on the LocalSet, in spawn order
    files,          \* temporary files that exist on disk
    caller,         \* the requesting thread: its position in poll_fetch / fetch
    started,        \* history: number of download_file calls per Url
    last,           \* history: the last response a poll_fetch / fetch call returned
    dropSnap,       \* history: the files and table states when Drop::drop began
    lastSend,       \* history: the last status.send_async(..).await of a process() task
    \* ---- Menu and the main loop of App (src/src/menu.rs, src/src/app.rs)
    rows,           \* Menu::rows: <<row anchor id, scroll offset>> per curated row
    selected_tile,  \* Menu::selected_tile: <<row, column>>
    grid_root,      \* Menu::grid_root
    pc,             \* position of the main thread in App::main_loop
    lastMove,       \* history: the last select_tile call and what it found
    nFailures,      \* history: downloads of thumbnails that ended in an error
    nToggles,       \* history: switches between windowed and fullscreen mode
    \* ---- RefCell borrow state of the widgets (src/src/app/widget.rs:205-221)
    borrows,        \* WidgetId -> [shared |-> live Ref count, mut |-> a RefMut is live]
    \* ---- the older cache (src/src/widget.rs)
    old_cache,      \* WidgetId -> [parent, children, origin]
    old_next_id,    \* the identifier the next successful insert returns
    old_ret,        \* history: what the last insert on the older cache returned
    \* ---- the worker's table and task pool under many locators (src/src/fetcher.rs)
    pool_cache,     \* DownloadCache over Locators
    pool_tasks      \* Locator -> number of its download_file calls in flight

wvars == <<cache, next_id, wstatus, insertLog, lastOp, nTranslates, drawLog>>

fvars == <<engine, worker, aborted, request_ch, response_ch, download_cache, tasks,
           files, caller, started, last, dropSnap, lastSend>>

mvars == <<rows, selected_tile, grid_root, pc, lastMove, nFailures, nToggles>>

bvars == <<borrows>>

ovars == <<old_cache, old_next_id, old_ret>>

pvars == <<pool_cache, pool_tasks>>

vars == <<cache, next_id, wstatus, insertLog, lastOp, nTranslates, drawLog,
          engine, worker, aborted, request_ch, response_ch, download_cache, tasks,
          files, caller, started, last, dropSnap, lastSend,
          rows, selected_tile, grid_root, pc, lastMove, nFailures, nToggles,
          borrows, old_cache, old_next_id, old_ret, pool_cache, pool_tasks>>

(***************************************************************************)
(* Bounds of the model.                                                    *)
(***************************************************************************)
MaxNodes == 3          \* nodes in the arena, root included
MaxTranslates == 2     \* non-trivial translate calls in one run
MaxDownloads == 2      \* download_file calls in one run
MaxTiles == 4          \* items of the row of the one-row document
MaxFailures == 1       \* thumbnail downloads that end in an error in one run
MaxFuel == 2
MaxToggles == 1
MaxRefs == 2            \* Ref guards of one widget alive at a time
MaxColumn == 5          \* columns and children counts of find_tile_index
MaxScroll == 3          \* scroll offsets of find_tile_index, either sign
MaxLocators == 9        \* distinct locators submitted to the worker

\* The locators requesters ask for.
Urls == {"u1", "u2"}

\* The (dx, dy) arguments translate is called with: the no-op and a shift on both axes.
Deltas == {<<0, 0>>, <<-1, 2>>}

(***************************************************************************)
(* Widget cache                                                            *)
(***************************************************************************)

\* WidgetId::root()
root == 0

\* Option::None of Properties::border and of WidgetTexture::texture.
NoBorder == [color |-> "none", width |-> 0]
NoTexture == <<>>

\* Properties::default()
PropertiesDefault ==
    [origin |-> <<0, 0>>, bounds |-> <<0, 0>>, color |-> "white", border |-> NoBorder,
     hidden |-> FALSE, invalidated |-> TRUE]

\* The properties of a widget handed to Widgets::new / insert by a caller of the
\* cache: the defaults with the caller's hidden flag and a 1 x 1 area; insert and
\* new invalidate it.
Properties(hidden) ==
    [PropertiesDefault EXCEPT !.hidden = hidden, !.bounds = <<1, 1>>]

\* WidgetTexture::default(): no texture held, recorded dimensions 0 x 0.
WidgetTextureDefault == [texture |-> NoTexture, width |-> 0, height |-> 0]

\* CacheEntry::new(widget, parent)
CacheEntry(props, parent) ==
    [parent |-> parent, children |-> <<>>, props |-> props,
     texture |-> WidgetTextureDefault]

\* Widgets::new(root_widget, textures)
WidgetsNew ==
    /\ cache = (root :> CacheEntry(Properties(FALSE), root))
    /\ next_id = 1

\* Widgets::get_children_of(id)
get_children_of(c, id) == c[id].children

\* Faulty variant: the origin is stored but the widget is not invalidated.
set_origin_NoInvalidate(c, id, x, y) ==
    [c EXCEPT ![id].props.origin = <<x, y>>]

\* Widget::set_origin(x, y): stores the origin and invalidates the widget.
set_origin(c, id, x, y) ==
    [c EXCEPT ![id].props.origin = <<x, y>>, ![id].props.invalidated = TRUE]

\* Widgets::translate(id, dx, dy).  The RefMut taken by get_mut(id) lives until the
\* function returns, so the set `held` of nodes borrowed by the enclosing calls is
\* threaded through the recursion; borrowing a held node aborts.  The result is
\* [c |-> cache, ok |-> FALSE iff a borrow check aborted].
RECURSIVE translateFrom(_, _, _, _, _, _)
translateFrom(st, held, id, i, dx, dy) ==
    LET kids == get_children_of(st.c, id) IN
    IF ~st.ok \/ i > Len(kids) THEN st
    ELSE LET child == kids[i]
             st1 == IF child = id THEN st
                    ELSE IF child \in held THEN [st EXCEPT !.ok = FALSE]
                    ELSE LET x == st.c[child].props.origin[1]
                             y == st.c[child].props.origin[2]
                             moved == [st EXCEPT !.c = set_origin(st.c, child, x + dx, y + dy)]
                         IN translateFrom(moved, held \cup {child}, child, 1, dx, dy)
         IN translateFrom(st1, held, id, i + 1, dx, dy)

\* Faulty variant: no short-circuit for the zero delta.
translate_NoShortCircuit(c, id, dx, dy) ==
    LET x == c[id].props.origin[1]
        y == c[id].props.origin[2]
    IN translateFrom([c |-> set_origin(c, id, x + dx, y + dy), ok |-> TRUE],
                     {id}, id, 1, dx, dy)

translate(c, id, dx, dy) ==
    IF dx = 0 /\ dy = 0 THEN [c |-> c, ok |-> TRUE]
    ELSE LET x == c[id].props.origin[1]
             y == c[id].props.origin[2]
         IN translateFrom([c |-> set_origin(c, id, x + dx, y + dy), ok |-> TRUE],
                          {id}, id, 1, dx, dy)

\* A render pass is threaded through draw_widget as
\*   [c |-> cache, log |-> per-node record of the pass, ok |-> no call failed yet,
\*    fuel |-> platform calls that will still succeed (Unlimited: all of them)].
\* The platform calls are create_texture_target, W::draw, with_texture_canvas and
\* canvas.copy; each returns through `?` when it fails.
Unlimited == -1
Spend(fuel) == IF fuel = Unlimited THEN fuel ELSE fuel - 1
RenderPass(c, fuel) == [c |-> c, log |-> <<>>, ok |-> TRUE, fuel |-> fuel]

\* One platform call: it fails when the fuel is used up.
PlatformCall(st) ==
    IF st.fuel = 0 THEN [st EXCEPT !.ok = FALSE] ELSE [st EXCEPT !.fuel = Spend(@)]

\* The record a render pass keeps of a node: what was done for it, and what the
\* W::draw of a tile put on its texture ("none" when it was not called).  A hidden
\* node keeps the record it starts with: nothing was done.
PassedOver(id) ==
    [id |-> id, create |-> FALSE, called |-> FALSE, draw |-> FALSE, border |-> FALSE,
     copy |-> FALSE, shown |-> "none"]

\* The pass reaches node id.
visit(st, id) == [st EXCEPT !.log = Append(@, PassedOver(id))]

\* The record of the node being visited notes whether the step just made succeeded.
noted(st, step) == [st EXCEPT !.log[Len(st.log)][step] = st.ok]

\* self.texture = tc.create_texture_target(None, width, height).map(Some)?
texture_created(called, id, width, height) ==
    noted(IF called.ok
          THEN [called EXCEPT !.c[id].texture.texture = <<width, height>>]
          ELSE called,
          "create")

\* Faulty variant: a texture is created on every call.
create_or_resize_Always(st, id, width, height) ==
    texture_created(PlatformCall([st EXCEPT !.c[id].texture.width = width,
                                            !.c[id].texture.height = height]),
                    id, width, height)

\* WidgetTexture::create_or_resize(tc, width, height) on the texture of node id:
\* the recorded dimensions are stored first, then the texture is created.
create_or_resize(st, id, width, height) ==
    IF \/ st.c[id].texture.texture = NoTexture
       \/ st.c[id].texture.width # width
       \/ st.c[id].texture.height # height
    THEN texture_created(PlatformCall([st EXCEPT !.c[id].texture.width = width,
                                                 !.c[id].texture.height = height]),
                         id, width, height)
    ELSE st

\* The body of `if !widget.is_hidden()` of draw_widget for node id, step by step.
\* if widget.is_invalidated() { canvas.with_texture_canvas(.. widget.draw(..)) ..?
redraw_step(st, id) ==
    IF st.ok /\ st.c[id].props.invalidated
    THEN noted(PlatformCall([st EXCEPT !.log[Len(st.log)].called = TRUE]), "draw")
    ELSE st

\* .. the border drawn by the same closure, when the widget has one.
border_step(st, id) ==
    IF /\ st.ok
       /\ st.c[id].props.invalidated
       /\ st.c[id].props.border # NoBorder
       /\ st.c[id].props.border.width > 0
    THEN noted(PlatformCall(st), "border")
    ELSE st

\* canvas.copy(texture, None, dst)?
copy_step(st, id) == IF st.ok THEN noted(PlatformCall(st), "copy") ELSE st

\* widget.properties_mut().invalidated = false
validated(st, id) ==
    IF st.ok THEN [st EXCEPT !.c[id].props.invalidated = FALSE] ELSE st

render_visible(st, id) ==
    validated(
        copy_step(
            border_step(
                redraw_step(
                    create_or_resize(st, id, st.c[id].props.bounds[1],
                                     st.c[id].props.bounds[2]),
                    id),
                id),
            id),
        id)

\* Faulty variant: the children of a hidden node are not visited.
RECURSIVE draw_widget(_, _), draw_children(_, _, _)
draw_widget_SkipHiddenSubtree(st, id) ==
    IF st.c[id].props.hidden
    THEN visit(st, id)
    ELSE draw_children(render_visible(visit(st, id), id), id, 1)

\* Widgets::draw_widget(id, canvas): a visible node gets its texture, is redrawn
\* when invalidated, is copied to the canvas and marked up to date; a hidden node
\* is passed over; then the children are visited in child-list order (not at all
\* once a step has failed).
draw_widget(st, id) ==
    draw_children(IF st.c[id].props.hidden
                  THEN visit(st, id)
                  ELSE render_visible(visit(st, id), id),
                  id, 1)

draw_children(st, id, i) ==
    IF ~st.ok \/ i > Len(get_children_of(st.c, id)) THEN st
    ELSE draw_children(IF get_children_of(st.c, id)[i] # id
                       THEN draw_widget(st, get_children_of(st.c, id)[i])
                       ELSE st,
                       id, i + 1)

\* Faulty variant: the new child is put at the front of the parent's child list.
insert_Prepend(c, id, props, parent) ==
    [n \in DOMAIN c \cup {id} |->
        IF n = id THEN CacheEntry(props, parent)
        ELSE IF n = parent THEN [c[n] EXCEPT !.children = <<id>> \o @]
        ELSE c[n]]

\* Faulty variant: the new entry is stored but never pushed on the parent's child list.
insert_NoPush(c, id, props, parent) ==
    [n \in DOMAIN c \cup {id} |->
        IF n = id THEN CacheEntry(props, parent) ELSE c[n]]

\* The cache after Widgets::insert(widget, parent) stored the widget under `id`:
\* children.push(id) on the parent, then cache.insert(id, CacheEntry::new(..)).
insert(c, id, props, parent) ==
    [n \in DOMAIN c \cup {id} |->
        IF n = id THEN CacheEntry(props, parent)
        ELSE IF n = parent THEN [c[n] EXCEPT !.children = Append(@, id)]
        ELSE c[n]]

----
\* Widgets::insert(widget, parent)
Insert(hidden, parent) ==
    /\ wstatus = "ok"
    /\ next_id < MaxNodes
    /\ IF parent \in DOMAIN cache
       THEN /\ cache' = insert(cache, next_id, Properties(hidden), parent)
            /\ next_id' = next_id + 1
            /\ insertLog' = Append(insertLog, <<next_id, parent>>)
            /\ lastOp' = [op |-> "insert", id |-> next_id, d |-> <<0, 0>>]
            /\ drawLog' = <<>>
            /\ UNCHANGED <<wstatus, nTranslates>>
       ELSE \* .expect("parent always exists")
            /\ wstatus' = "panicked"
            /\ lastOp' = [op |-> "insert_panic", id |-> parent, d |-> <<0, 0>>]
            /\ drawLog' = <<>>
            /\ UNCHANGED <<cache, next_id, insertLog, nTranslates>>
    /\ UNCHANGED <<fvars, mvars, bvars, ovars, pvars>>

\* Widgets::translate(id, dx, dy) called by the application on a node of the cache.
Translate(id, d) ==
    /\ wstatus = "ok"
    /\ id \in DOMAIN cache
    /\ d # <<0, 0>> => nTranslates < MaxTranslates
    /\ LET r == translate(cache, id, d[1], d[2]) IN
         /\ cache' = r.c
         /\ wstatus' = IF r.ok THEN "ok" ELSE "panicked"
    /\ nTranslates' = IF d = <<0, 0>> THEN nTranslates ELSE nTranslates + 1
    /\ lastOp' = [op |-> "translate", id |-> id, d |-> d]
    /\ drawLog' = <<>>
    /\ UNCHANGED <<next_id, insertLog>>
    /\ UNCHANGED <<fvars, mvars, bvars, ovars, pvars>>

\* Widgets::draw(canvas): one successful render pass from the root.
Draw ==
    /\ wstatus = "ok"
    /\ LET pass == draw_widget(RenderPass(cache, Unlimited), root) IN
         /\ cache' = pass.c
         /\ drawLog' = pass.log
    /\ lastOp' = [op |-> "draw", id |-> root, d |-> <<0, 0>>]
    /\ UNCHANGED <<next_id, wstatus, insertLog, nTranslates>>
    /\ UNCHANGED <<fvars, mvars, bvars, ovars, pvars>>

InitWidgets ==
    /\ WidgetsNew
    /\ wstatus = "ok"
    /\ insertLog = <<>>
    /\ lastOp = [op |-> "new", id |-> root, d |-> <<0, 0>>]
    /\ nTranslates = 0
    /\ drawLog = <<>>

NextWidgets ==
    \/ \E hidden \in BOOLEAN, parent \in 0..(MaxNodes - 1) : Insert(hidden, parent)
    \/ \E id \in 0..(MaxNodes - 1), d \in Deltas : Translate(id, d)
    \/ Draw


(***************************************************************************)
(* Properties of the widget cache                                          *)
(***************************************************************************)

\* n is id or a transitive descendant of id, by the parent pointers of cache c.
RECURSIVE IsUnder(_, _, _)
IsUnder(c, n, id) ==
    \/ n = id
    \/ n # root /\ c[n].parent # n /\ IsUnder(c, c[n].parent, id)

\* C8: a translate by a non-zero (dx, dy) adds exactly (dx, dy) to the origin of the
\* node and of each of its transitive descendants, invalidates exactly those nodes,
\* and leaves the properties of every node outside the subtree as they were.
C8_TranslateShiftsSubtree ==
    [][(lastOp'.op = "translate" /\ lastOp'.d # <<0, 0>>) =>
        /\ wstatus' = "ok"
        /\ DOMAIN cache' = DOMAIN cache
        /\ \A n \in DOMAIN cache :
              /\ cache'[n].parent = cache[n].parent
              /\ cache'[n].children = cache[n].children
              /\ IF IsUnder(cache, n, lastOp'.id)
                 THEN /\ cache'[n].props.origin[1] = cache[n].props.origin[1] + lastOp'.d[1]
                      /\ cache'[n].props.origin[2] = cache[n].props.origin[2] + lastOp'.d[2]
                      /\ cache'[n].props.invalidated
                      /\ cache'[n].props.hidden = cache[n].props.hidden
                 ELSE cache'[n].props = cache[n].props]_vars

\* A non-zero translate of a node that has a descendant, while a node outside its
\* subtree is up to date (not invalidated).
C8_Witness ==
    /\ lastOp.op = "translate"
    /\ lastOp.d[1] # 0 /\ lastOp.d[2] # 0
    /\ \E n \in DOMAIN cache : n # lastOp.id /\ IsUnder(cache, n, lastOp.id)
    /\ \E m \in DOMAIN cache : ~IsUnder(cache, m, lastOp.id) /\ ~cache[m].props.invalidated

\* C9: translate(id, 0, 0) changes no node: origins and invalidated flags stay.
C9_ZeroTranslateIsNoOp ==
    [][(lastOp'.op = "translate" /\ lastOp'.d = <<0, 0>>) =>
        /\ cache' = cache
        /\ wstatus' = wstatus]_vars

\* A zero translate of a node that has a child, both up to date before and after.
C9_Witness ==
    /\ lastOp.op = "translate"
    /\ lastOp.d = <<0, 0>>
    /\ ~cache[lastOp.id].props.invalidated
    /\ \E n \in DOMAIN cache :
          n # lastOp.id /\ cache[n].parent = lastOp.id /\ ~cache[n].props.invalidated

\* The identifiers insert returned for parent p, in call order.
RECURSIVE InsertedUnder(_, _)
InsertedUnder(log, p) ==
    IF log = <<>> THEN <<>>
    ELSE (IF Head(log)[2] = p THEN <<Head(log)[1]>> ELSE <<>>) \o InsertedUnder(Tail(log), p)

\* C10: identifiers returned by insert are never the root, strictly increasing (so
\* pairwise distinct), and children_of(p) is exactly the nodes inserted under p, in
\* insertion order.
C10_InsertIdsAndChildOrder ==
    /\ \A i \in 1..Len(insertLog) : insertLog[i][1] # root
    /\ \A i, j \in 1..Len(insertLog) : i < j => insertLog[i][1] < insertLog[j][1]
    /\ \A p \in DOMAIN cache : get_children_of(cache, p) = InsertedUnder(insertLog, p)

\* Two inserts have been made under the same parent.
C10_Witness ==
    \E p \in DOMAIN cache : Len(get_children_of(cache, p)) >= 2

\* The number of positions of sequence s that hold n.
Occurrences(s, n) == Cardinality({i \in 1..Len(s) : s[i] = n})

\* C11: the root (node 0) exists; every other node has one parent, which is in the
\* cache and was inserted before it; the node is listed exactly once in that parent's
\* child list and in no other list; the root is in no child list.  Parents having
\* smaller identifiers than their children, the parent pointers form a tree.
C11_CacheIsTree ==
    /\ root \in DOMAIN cache
    /\ \A n \in DOMAIN cache \ {root} :
          /\ cache[n].parent \in DOMAIN cache
          /\ cache[n].parent < n
          /\ \E i \in 1..Len(insertLog) : insertLog[i] = <<n, cache[n].parent>>
          /\ \A p \in DOMAIN cache :
                Occurrences(get_children_of(cache, p), n) = IF p = cache[n].parent THEN 1 ELSE 0
    /\ \A p \in DOMAIN cache : Occurrences(get_children_of(cache, p), root) = 0

\* A node was inserted under a parent that is not the root (a tree of depth two).
C11_Witness ==
    \E n \in DOMAIN cache \ {root} : cache[n].parent # root

\* The position of node n in the record of a render pass.
PosIn(log, n) == CHOOSE i \in 1..Len(log) : log[i].id = n

\* C12: a successful render pass visits every node once, a parent before its
\* children and the children of one parent in insertion order.  A hidden node is
\* neither drawn nor copied to the canvas and keeps its properties; a node that is
\* not hidden (whether or not an ancestor is hidden) is redrawn exactly when it was
\* invalidated before the pass, is copied to the canvas, and is up to date after it.
C12_RenderPass ==
    [][lastOp'.op = "draw" =>
        LET log == drawLog' IN
        /\ wstatus' = "ok"
        /\ DOMAIN cache' = DOMAIN cache
        /\ \A n \in DOMAIN cache : Cardinality({i \in 1..Len(log) : log[i].id = n}) = 1
        /\ \A i \in 1..Len(log) : log[i].id \in DOMAIN cache
        /\ \A n \in DOMAIN cache \ {root} : PosIn(log, cache[n].parent) < PosIn(log, n)
        /\ \A i, j \in 1..Len(insertLog) :
              (i < j /\ insertLog[i][2] = insertLog[j][2])
                  => PosIn(log, insertLog[i][1]) < PosIn(log, insertLog[j][1])
        /\ \A n \in DOMAIN cache :
              LET ev == log[PosIn(log, n)] IN
              IF cache[n].props.hidden
              THEN /\ ~ev.create /\ ~ev.draw /\ ~ev.border /\ ~ev.copy
                   /\ cache'[n].props = cache[n].props
              ELSE /\ ev.draw = cache[n].props.invalidated
                   /\ ev.copy
                   /\ ~cache'[n].props.invalidated]_vars

\* A render pass met a hidden node whose child is visible and was redrawn, while
\* another visible node was up to date and only copied.
C12_Witness ==
    /\ lastOp.op = "draw"
    /\ \E h, n \in DOMAIN cache :
          /\ cache[h].props.hidden /\ n # h /\ cache[n].parent = h
          /\ ~cache[n].props.hidden
          /\ drawLog[PosIn(drawLog, n)].draw
    /\ \E i \in 1..Len(drawLog) : drawLog[i].copy /\ ~drawLog[i].draw

(***************************************************************************)
(* Fetch engine                                                            *)
(***************************************************************************)

\* const MAX_CHANNEL_CAP: usize = 1
MAX_CHANNEL_CAP == 1

\* "no path": the path field of an entry or response that carries none.
NoPath == 0

\* Values of a DownloadCache slot: vacant, Poll::Pending, Poll::Ready(Ok(temp_path)),
\* Poll::Ready(Err(_)).
Absent == [st |-> "absent", path |-> NoPath]
PendingEntry == [st |-> "pending", path |-> NoPath]
ReadyEntry(f) == [st |-> "ready", path |-> f]
FailedEntry == [st |-> "failed", path |-> NoPath]

\* A Response, tagged with the Url of the request it answers.
Response(url, st, path) == [url |-> url, st |-> st, path |-> path]

RemoveAt(s, i) == SubSeq(s, 1, i - 1) \o SubSeq(s, i + 1, Len(s))

RECURSIVE SumOver(_, _)
SumOver(f, S) ==
    IF S = {} THEN 0
    ELSE LET x == CHOOSE y \in S : TRUE IN f[x] + SumOver(f, S \ {x})

\* download_file calls made so far, over all Urls.
TotalStarted == SumOver(started, Urls)

\* Faulty variant: a pending entry is treated like a vacant one (no deduplication).
process_NoDedup(c, url) ==
    LET e == c[url] IN
    IF e.st = "absent" \/ e.st = "pending"
    THEN [c |-> [c EXCEPT ![url] = PendingEntry],
          resp |-> Response(url, "pending", NoPath), download |-> TRUE]
    ELSE IF e.st = "ready"
    THEN [c |-> c, resp |-> Response(url, "ready", e.path), download |-> FALSE]
    ELSE [c |-> [c EXCEPT ![url] = Absent],
          resp |-> Response(url, "failed", NoPath), download |-> FALSE]

\* Faulty variant: the vacant branch forgets to insert the Pending entry.
process_NoInsert(c, url) ==
    LET e == c[url] IN
    IF e.st = "absent"
    THEN [c |-> c, resp |-> Response(url, "pending", NoPath), download |-> TRUE]
    ELSE IF e.st = "ready"
    THEN [c |-> c, resp |-> Response(url, "ready", e.path), download |-> FALSE]
    ELSE IF e.st = "failed"
    THEN [c |-> [c EXCEPT ![url] = Absent],
          resp |-> Response(url, "failed", NoPath), download |-> FALSE]
    ELSE [c |-> c, resp |-> Response(url, "pending", NoPath), download |-> FALSE]

\* Faulty variant: a ready entry is evicted when it is returned.
process_EvictReady(c, url) ==
    LET e == c[url] IN
    IF e.st = "absent"
    THEN [c |-> [c EXCEPT ![url] = PendingEntry],
          resp |-> Response(url, "pending", NoPath), download |-> TRUE]
    ELSE IF e.st = "ready"
    THEN [c |-> [c EXCEPT ![url] = Absent],
          resp |-> Response(url, "ready", e.path), download |-> FALSE]
    ELSE IF e.st = "failed"
    THEN [c |-> [c EXCEPT ![url] = Absent],
          resp |-> Response(url, "failed", NoPath), download |-> FALSE]
    ELSE [c |-> c, resp |-> Response(url, "pending", NoPath), download |-> FALSE]

\* Faulty variant: a failed entry is reported but stays in the table.
process_NoEvict(c, url) ==
    LET e == c[url] IN
    IF e.st = "absent"
    THEN [c |-> [c EXCEPT ![url] = PendingEntry],
          resp |-> Response(url, "pending", NoPath), download |-> TRUE]
    ELSE IF e.st = "ready"
    THEN [c |-> c, resp |-> Response(url, "ready", e.path), download |-> FALSE]
    ELSE IF e.st = "failed"
    THEN [c |-> c, resp |-> Response(url, "failed", NoPath), download |-> FALSE]
    ELSE [c |-> c, resp |-> Response(url, "pending", NoPath), download |-> FALSE]

\* Faulty variant: the entry of another locator is looked up and reported.
process_OtherLocator(c, url) ==
    LET o == CHOOSE v \in DOMAIN c : v # url
        e == c[o]
    IN [c |-> c,
        resp |-> Response(o, IF e.st = "absent" THEN "pending" ELSE e.st, e.path),
        download |-> FALSE]

\* process(url, client, cache, status), the table bookkeeping of lines 137-157:
\* the table after the call, the response sent on `status`, and whether the task
\* goes on to download_file.
process(c, url) ==
    LET e == c[url] IN
    IF e.st = "absent"
    THEN \* Entry::Vacant: insert Pending, answer Pending, then download
         [c |-> [c EXCEPT ![url] = PendingEntry],
          resp |-> Response(url, "pending", NoPath), download |-> TRUE]
    ELSE IF e.st = "ready"
    THEN [c |-> c, resp |-> Response(url, "ready", e.path), download |-> FALSE]
    ELSE IF e.st = "failed"
    THEN \* e.remove(): the error is handed to the caller and the slot is vacated
         [c |-> [c EXCEPT ![url] = Absent],
          resp |-> Response(url, "failed", NoPath), download |-> FALSE]
    ELSE [c |-> c, resp |-> Response(url, "pending", NoPath), download |-> FALSE]

\* Line 160, *cache.borrow_mut().get_mut(&url).unwrap() = Poll::Ready(result), for a
\* task whose temporary file is f (NoPath if none was created).  The value that is
\* overwritten is dropped, and so is an Err result's temp_path (already dropped inside
\* download_file); a dropped TempPath deletes its file.  With the slot vacant the
\* unwrap aborts the task and the result is dropped.
complete(c, fs, url, f, ok) ==
    IF c[url].st = "absent" THEN [c |-> c, files |-> fs \ {f}]
    ELSE [c |-> [c EXCEPT ![url] = IF ok THEN ReadyEntry(f) ELSE FailedEntry],
          files |-> (fs \ {c[url].path}) \ (IF ok THEN {} ELSE {f})]

\* Faulty variant: only the table's files are released when the worker returns.
owned_files_TableOnly(c, ts) ==
    {c[u].path : u \in DOMAIN c}

\* The temporary files owned by the values the worker drops when fetcher() returns:
\* the TempPaths in the table and those held by the cancelled download tasks.
owned_files(c, ts) ==
    {c[u].path : u \in DOMAIN c} \cup {ts[i].file : i \in 1..Len(ts)}

\* Faulty variant: fetch returns whatever the first poll_fetch answers.
fetch_continues_Never(resp) == FALSE

\* Fetcher::fetch, the match in the loop: Poll::Pending => {} (poll again).
fetch_continues(resp) == resp.st = "pending"

Gone == {"panicked", "exited"}

\* Faulty variant: the vacant branch keeps the borrow as the occupied ones do.
locked_cache_NeverDropped(download) == TRUE

\* Whether locked_cache, the RefMut of the table taken at line 137, is still alive
\* when status.send_async(..).await is reached: the vacant branch (download) drops
\* it at line 152, the occupied branches keep it until process() returns.
locked_cache(download) == ~download

----
\* Faulty variant: poll_fetch returns after the send, without the recv.
SendRequest_NoWait(u, inFetch, base) ==
    /\ worker \notin Gone
    /\ Len(request_ch) < MAX_CHANNEL_CAP
    /\ request_ch' = Append(request_ch, u)
    /\ caller' = [pc |-> "idle", url |-> u, inFetch |-> FALSE, base |-> base]
    /\ UNCHANGED last

\* The first half of Fetcher::poll_fetch(url): request_tx.send(url).  With the
\* receiver gone the send fails and expect() aborts the caller.
SendRequest(u, inFetch, base) ==
    IF worker \in Gone
    THEN /\ caller' = [pc |-> "panicked", url |-> u, inFetch |-> inFetch, base |-> base]
         /\ last' = [url |-> u, st |-> "panic", path |-> NoPath, viaFetch |-> inFetch,
                     downloads |-> started[u] - base]
         /\ UNCHANGED request_ch
    ELSE /\ Len(request_ch) < MAX_CHANNEL_CAP
         /\ request_ch' = Append(request_ch, u)
         /\ caller' = [pc |-> "recv", url |-> u, inFetch |-> inFetch, base |-> base]
         /\ UNCHANGED last

\* A requester calls Fetcher::poll_fetch(u).
PollFetch(u) ==
    /\ engine = "alive"
    /\ caller.pc = "idle"
    /\ download_cache[u].st = "absent" => TotalStarted < MaxDownloads
    /\ SendRequest(u, FALSE, started[u])
    /\ UNCHANGED <<engine, worker, aborted, response_ch, download_cache, tasks, files,
                   started>>
    /\ UNCHANGED <<wvars, mvars, bvars, ovars, pvars, dropSnap, lastSend>>

\* A requester calls Fetcher::fetch(u): the first poll_fetch of the loop.
Fetch(u) ==
    /\ engine = "alive"
    /\ caller.pc = "idle"
    /\ download_cache[u].st = "absent" => TotalStarted < MaxDownloads
    /\ SendRequest(u, TRUE, started[u])
    /\ UNCHANGED <<engine, worker, aborted, response_ch, download_cache, tasks, files,
                   started>>
    /\ UNCHANGED <<wvars, mvars, bvars, ovars, pvars, dropSnap, lastSend>>

\* The second half of poll_fetch: response_rx.recv().  Inside fetch a Pending answer
\* makes the loop call poll_fetch again at once; any other answer is returned.
Recv ==
    /\ caller.pc = "recv"
    /\ IF response_ch # <<>>
       THEN LET resp == Head(response_ch) IN
            /\ response_ch' = Tail(response_ch)
            /\ IF caller.inFetch /\ fetch_continues(resp)
               THEN SendRequest(caller.url, TRUE, caller.base)
               ELSE /\ caller' = [caller EXCEPT !.pc = "idle", !.inFetch = FALSE]
                    /\ last' = [url |-> resp.url, st |-> resp.st, path |-> resp.path,
                                viaFetch |-> caller.inFetch,
                                downloads |-> started[caller.url] - caller.base]
                    /\ UNCHANGED request_ch
       ELSE \* the channel is empty: recv blocks unless every sender is gone
            /\ worker \in Gone
            /\ caller' = [caller EXCEPT !.pc = "panicked"]
            /\ last' = [url |-> caller.url, st |-> "panic", path |-> NoPath,
                        viaFetch |-> caller.inFetch,
                        downloads |-> started[caller.url] - caller.base]
            /\ UNCHANGED <<request_ch, response_ch>>
    /\ UNCHANGED <<engine, worker, aborted, download_cache, tasks, files, started>>
    /\ UNCHANGED <<wvars, mvars, bvars, ovars, pvars, dropSnap, lastSend>>

\* The worker thread enters fetcher(): runtime, Client, cache and pool are built.
WorkerStart ==
    /\ worker = "starting"
    /\ worker' = "running"
    /\ UNCHANGED <<engine, aborted, request_ch, response_ch, download_cache, tasks,
                   files, caller, started, last>>
    /\ UNCHANGED <<wvars, mvars, bvars, ovars, pvars, dropSnap, lastSend>>

\* Building the runtime or the Client panics: the thread unwinds and both channel
\* ends it owns are dropped.
WorkerPanic ==
    /\ worker = "starting"
    /\ worker' = "panicked"
    /\ request_ch' = <<>>
    /\ UNCHANGED <<engine, aborted, response_ch, download_cache, tasks, files, caller,
                   started, last>>
    /\ UNCHANGED <<wvars, mvars, bvars, ovars, pvars, dropSnap, lastSend>>

\* fetch_files: requests.next().await yields a Url and process() is spawned for it.
WorkerRecv ==
    /\ worker = "running"
    /\ ~aborted
    /\ request_ch # <<>>
    /\ tasks' = Append(tasks, [url |-> Head(request_ch), pc |-> "spawned", file |-> NoPath,
                                locked |-> FALSE])
    /\ request_ch' = Tail(request_ch)
    /\ UNCHANGED <<engine, worker, aborted, response_ch, download_cache, files, caller,
                   started, last>>
    /\ UNCHANGED <<wvars, mvars, bvars, ovars, pvars, dropSnap, lastSend>>

\* First poll of a process() task: lines 137-157.  The response channel has room
\* (the caller has one request outstanding), so send_async completes at once.  On
\* the occupied branches the function then returns, which drops locked_cache; on
\* the vacant branch the task goes on to download_file with the borrow it has left.
Process(i) ==
    /\ worker = "running"
    /\ i \in 1..Len(tasks)
    /\ tasks[i].pc = "spawned"
    /\ Len(response_ch) < MAX_CHANNEL_CAP
    /\ LET r == process(download_cache, tasks[i].url) IN
         /\ download_cache' = r.c
         /\ response_ch' = Append(response_ch, r.resp)
         /\ lastSend' = [branch |-> IF r.download THEN "vacant" ELSE "occupied",
                         locked |-> locked_cache(r.download), st |-> r.resp.st]
         /\ tasks' = IF r.download
                     THEN [tasks EXCEPT ![i].pc = "download",
                                        ![i].locked = locked_cache(r.download)]
                     ELSE RemoveAt(tasks, i)
         /\ started' = IF r.download
                       THEN [started EXCEPT ![tasks[i].url] = @ + 1]
                       ELSE started
    /\ UNCHANGED <<engine, worker, aborted, request_ch, files, caller, last>>
    /\ UNCHANGED <<wvars, mvars, bvars, ovars, pvars, dropSnap>>

\* download_file up to its first await: NamedTempFile::new() creates the file and
\* request.send() is awaited, or creating the file fails and Err is stored.
DownloadBegin(i) ==
    /\ worker = "running"
    /\ i \in 1..Len(tasks)
    /\ tasks[i].pc = "download"
    /\ \/ \E f \in 1..MaxDownloads :
            /\ f \notin files
            /\ \A j \in 1..Len(tasks) : tasks[j].file # f
            /\ \A u \in Urls : download_cache[u].path # f
            /\ \A g \in 1..(f - 1) :
                  \/ g \in files
                  \/ \E j \in 1..Len(tasks) : tasks[j].file = g
            /\ files' = files \cup {f}
            /\ tasks' = [tasks EXCEPT ![i].pc = "sending", ![i].file = f]
            /\ UNCHANGED download_cache
       \/ LET r == complete(download_cache, files, tasks[i].url, NoPath, FALSE) IN
            /\ download_cache' = r.c
            /\ files' = r.files
            /\ tasks' = RemoveAt(tasks, i)
    /\ UNCHANGED <<engine, worker, aborted, request_ch, response_ch, caller, started, last>>
    /\ UNCHANGED <<wvars, mvars, bvars, ovars, pvars, dropSnap, lastSend>>

\* request.send().await returns the response; the body stream is read next.
ResponseArrives(i) ==
    /\ worker = "running"
    /\ i \in 1..Len(tasks)
    /\ tasks[i].pc = "sending"
    /\ tasks' = [tasks EXCEPT ![i].pc = "streaming"]
    /\ UNCHANGED <<engine, worker, aborted, request_ch, response_ch, download_cache,
                   files, caller, started, last>>
    /\ UNCHANGED <<wvars, mvars, bvars, ovars, pvars, dropSnap, lastSend>>

\* The request, a chunk or a write fails: download_file returns Err (its temp_path
\* is dropped) and line 160 stores Ready(Err).
DownloadFail(i) ==
    /\ worker = "running"
    /\ i \in 1..Len(tasks)
    /\ tasks[i].pc \in {"sending", "streaming"}
    /\ LET r == complete(download_cache, files, tasks[i].url, tasks[i].file, FALSE) IN
         /\ download_cache' = r.c
         /\ files' = r.files
    /\ tasks' = RemoveAt(tasks, i)
    /\ UNCHANGED <<engine, worker, aborted, request_ch, response_ch, caller, started, last>>
    /\ UNCHANGED <<wvars, mvars, bvars, ovars, pvars, dropSnap, lastSend>>

\* The body stream ends: download_file returns Ok(temp_path) and line 160 stores it.
DownloadOk(i) ==
    /\ worker = "running"
    /\ i \in 1..Len(tasks)
    /\ tasks[i].pc = "streaming"
    /\ LET r == complete(download_cache, files, tasks[i].url, tasks[i].file, TRUE) IN
         /\ download_cache' = r.c
         /\ files' = r.files
    /\ tasks' = RemoveAt(tasks, i)
    /\ UNCHANGED <<engine, worker, aborted, request_ch, response_ch, caller, started, last>>
    /\ UNCHANGED <<wvars, mvars, bvars, ovars, pvars, dropSnap, lastSend>>

\* Drop for Fetcher, first statement: self.remote_task.abort().
DropAbort ==
    /\ engine = "alive"
    /\ caller.pc \in {"idle", "panicked"}
    /\ engine' = "dropping"
    /\ aborted' = TRUE
    /\ dropSnap' = [files |-> files, st |-> [u \in Urls |-> download_cache[u].st]]
    /\ UNCHANGED <<worker, request_ch, response_ch, download_cache, tasks, files, caller,
                   started, last>>
    /\ UNCHANGED <<wvars, mvars, bvars, ovars, pvars, lastSend>>

\* Faulty variant: the worker returns only once the pool has run every task to its
\* end (awaiting the LocalSet itself instead of run_until).
WorkerExit_AfterTasks ==
    /\ worker = "running"
    /\ aborted
    /\ tasks = <<>>
    /\ worker' = "exited"
    /\ files' = files \ owned_files(download_cache, tasks)
    /\ tasks' = <<>>
    /\ download_cache' = [u \in Urls |-> Absent]
    /\ request_ch' = <<>>
    /\ UNCHANGED <<engine, aborted, response_ch, caller, started, last>>
    /\ UNCHANGED <<wvars, mvars, bvars, ovars, pvars, dropSnap, lastSend>>

\* The Abortable is polled with the flag set: run_until returns, and on return from
\* fetcher() the pool (every spawned task), the table and the channel ends are dropped.
WorkerExit ==
    /\ worker = "running"
    /\ aborted
    /\ worker' = "exited"
    /\ files' = files \ owned_files(download_cache, tasks)
    /\ tasks' = <<>>
    /\ download_cache' = [u \in Urls |-> Absent]
    /\ request_ch' = <<>>
    /\ UNCHANGED <<engine, aborted, response_ch, caller, started, last>>
    /\ UNCHANGED <<wvars, mvars, bvars, ovars, pvars, dropSnap, lastSend>>

\* Drop for Fetcher, second statement: thread.join() returns; the handle's fields
\* (both channel ends) are dropped afterwards.
DropJoin ==
    /\ engine = "dropping"
    /\ worker \in Gone
    /\ engine' = "dropped"
    /\ response_ch' = <<>>
    /\ UNCHANGED <<worker, aborted, request_ch, download_cache, tasks, files, caller,
                   started, last>>
    /\ UNCHANGED <<wvars, mvars, bvars, ovars, pvars, dropSnap, lastSend>>

\* fetcher::spawn()
InitFetcher ==
    /\ engine = "alive"
    /\ worker = "starting"
    /\ aborted = FALSE
    /\ request_ch = <<>>
    /\ response_ch = <<>>
    /\ download_cache = [u \in Urls |-> Absent]
    /\ tasks = <<>>
    /\ files = {}
    /\ caller = [pc |-> "idle", url |-> "u1", inFetch |-> FALSE, base |-> 0]
    /\ started = [u \in Urls |-> 0]
    /\ last = [url |-> "u1", st |-> "none", path |-> NoPath, viaFetch |-> FALSE,
               downloads |-> 0]
    /\ dropSnap = [files |-> {}, st |-> [u \in Urls |-> "absent"]]
    /\ lastSend = [branch |-> "none", locked |-> FALSE, st |-> "none"]

NextFetcher ==
    \/ \E u \in Urls : PollFetch(u)
    \/ \E u \in Urls : Fetch(u)
    \/ Recv
    \/ WorkerStart
    \/ WorkerPanic
    \/ WorkerRecv
    \/ \E i \in 1..Len(tasks) : Process(i)
    \/ \E i \in 1..Len(tasks) : DownloadBegin(i)
    \/ \E i \in 1..Len(tasks) : ResponseArrives(i)
    \/ \E i \in 1..Len(tasks) : DownloadFail(i)
    \/ \E i \in 1..Len(tasks) : DownloadOk(i)
    \/ DropAbort
    \/ WorkerExit
    \/ DropJoin

(***************************************************************************)
(* Menu: the grid of tiles and its navigation  (src/src/menu.rs)           *)
(***************************************************************************)

RIGHT_MARGIN == 52
TOP_MARGIN == 68
LABEL_POINT_SIZE == 42
LABEL_PADDING == 18
TILE_WIDTH == 500
TILE_HEIGHT == 281
TILE_MARGIN == 28
ROW_HEIGHT == TILE_HEIGHT + 156
CURSOR_BORDER_WIDTH == 10

\* ---- f32 arithmetic.  A positive f32 is mant * 2^(-frac) with 2^23 <= mant < 2^24;
\* results are rounded to nearest, ties to even.  All intermediate values stay
\* below 2^31.
F32Top == 8388608       \* 2^23: the weight of the leading mantissa bit

\* The powers of two below 2^16, and the greatest of them that is at most n.
SmallPowers == {1, 2, 4, 8, 16, 32, 64, 128, 256, 512, 1024, 2048, 4096, 8192,
                16384, 32768}
HighBit(n) == CHOOSE p \in SmallPowers : p <= n /\ n < 2 * p

\* n further bits of the binary expansion of r / d (0 <= r < d), appended to q.
RECURSIVE DivBits(_, _, _, _)
DivBits(r, d, n, q) ==
    IF n = 0 THEN [q |-> q, r |-> r]
    ELSE IF 2 * r >= d THEN DivBits(2 * r - d, d, n - 1, 2 * q + 1)
    ELSE DivBits(2 * r, d, n - 1, 2 * q)

\* Round the quotient bits to nearest, ties to even, by what is left of the dividend.
RoundBits(b, d) ==
    IF 2 * b.r > d \/ (2 * b.r = d /\ b.q % 2 = 1) THEN b.q + 1 ELSE b.q

\* An f32 constant below 2 is held as mant / unit with unit = 2^23 (values in [1, 2))
\* or unit = 2^24 (values in [1/2, 1)), and 2^23 <= mant < 2^24.

\* The f32 nearest to n / d, for 1 <= n / d < 2.
F32Literal(n, d) ==
    [mant |-> F32Top + RoundBits(DivBits(n - d, d, 23, 0), d), unit |-> F32Top]

\* The f32 quotient 1.0 / x for an f32 x with 1 < x < 2: it lies in (1/2, 1), so
\* its 24 mantissa bits are the first 24 bits of the expansion.
F32Reciprocal(x) ==
    [mant |-> RoundBits(DivBits(F32Top, x.mant, 24, 0), x.mant), unit |-> 2 * F32Top]

\* (w as f32 * k) as u32 for an integer 0 <= w < 2^16 and an f32 constant k: the
\* exact product w * k.mant / k.unit is rounded to 24 significant bits and then
\* truncated.  The product is formed in two halves of k.mant to stay within 32
\* bits.  Rounding changes the truncated value only when it carries into the next
\* integer, that is when the fraction is within half a unit in the last place
\* (HighBit(int) / 2^24) of 1; a tie goes to the integer, whose mantissa is even.
F32MulTrunc(w, k) ==
    LET hi == w * (k.mant \div 4096)
        lo == w * (k.mant % 4096)
        upper == hi + (lo \div 4096)                 \* floor(w * mant / 2^12)
        scale == k.unit \div 4096
        int == upper \div scale                      \* integer part of the product
        rest == (upper % scale) * 4096 + (lo % 4096) \* fraction, in units of 1 / unit
    IN IF int = 0 THEN 0
       ELSE IF (k.unit - rest) * ((2 * F32Top) \div k.unit) <= HighBit(int)
            THEN int + 1
            ELSE int

\* const CURSOR_SCALE_FACTOR: f32 = 1.1
CURSOR_SCALE_FACTOR == F32Literal(11, 10)

\* 1.0 / CURSOR_SCALE_FACTOR
CURSOR_SCALE_INVERSE == F32Reciprocal(CURSOR_SCALE_FACTOR)

\* (side as f32 * (1.0 / CURSOR_SCALE_FACTOR)) as u32
ScaleDown(side) == F32MulTrunc(side, CURSOR_SCALE_INVERSE)

\* 1.333f32
LABEL_HEIGHT_FACTOR == F32Literal(1333, 1000)

\* (point_size as f32 * 1.333f32) as u32, the height new_label gives a label.
ApproxHeight(point_size) == F32MulTrunc(point_size, LABEL_HEIGHT_FACTOR)

\* Rust's integer division truncates toward zero.
TruncDiv(a, b) == IF a >= 0 THEN a \div b ELSE -((-a) \div b)

\* ---- WidgetKind: the Properties of a widget together with its variant, and for a
\* Tile its Thumbnail (Pending(fetcher, url) or Ready(path)).
NoImage == [st |-> "none", path |-> NoPath]
WidgetKind(kind, props, image, url) ==
    props @@ [kind |-> kind, image |-> image, url |-> url]

\* WidgetKind::new_root(width, height)
new_root(width, height) ==
    WidgetKind("root",
               [PropertiesDefault EXCEPT !.bounds = <<width, height>>,
                                         !.color = "background"],
               NoImage, "")

\* WidgetKind::new_anchor(x, y)
new_anchor(x, y) ==
    WidgetKind("anchor",
               [PropertiesDefault EXCEPT !.origin = <<x, y>>, !.bounds = <<1, 1>>,
                                         !.hidden = TRUE],
               NoImage, "")

\* WidgetKind::new_label(text, point_size, x, y, max_width)
new_label(point_size, x, y, max_width) ==
    WidgetKind("label",
               [PropertiesDefault EXCEPT !.origin = <<x, y>>,
                                         !.bounds = <<max_width, ApproxHeight(point_size)>>],
               NoImage, "")

\* WidgetKind::new_tile(x, y, image_url, fetcher)
new_tile(x, y, image_url) ==
    WidgetKind("tile",
               [PropertiesDefault EXCEPT !.origin = <<x, y>>,
                                         !.bounds = <<TILE_WIDTH, TILE_HEIGHT>>,
                                         !.color = "tile"],
               [st |-> "pending", path |-> NoPath], image_url)

\* Faulty variant: the bounds are stored but the widget is not invalidated.
set_bounds_NoInvalidate(c, id, width, height) ==
    [c EXCEPT ![id].props.bounds = <<width, height>>]

\* Widget::set_bounds(width, height)
set_bounds(c, id, width, height) ==
    [c EXCEPT ![id].props.bounds = <<width, height>>, ![id].props.invalidated = TRUE]

\* Widget::set_border(color, width)
set_border(c, id, color, width) ==
    [c EXCEPT ![id].props.border = [color |-> color, width |-> width],
              ![id].props.invalidated = TRUE]

\* Widget::clear_border()
clear_border(c, id) ==
    [c EXCEPT ![id].props.border = NoBorder, ![id].props.invalidated = TRUE]

\* `v as usize` for an isize v.  A negative v wraps to 2^64 + v, which is above every
\* Vec length; the model's integers being 32 bits wide, the wrapped values are
\* placed directly below UsizeTop instead, in the same order.
UsizeTop == 2147483647
AsUsize(v) == IF v >= 0 THEN v ELSE (UsizeTop + v) + 1

\* Faulty variant: the two scroll offsets are applied with the wrong signs.
find_tile_index_Swapped(column, scroll_offset, adj_scroll_offset) ==
    AsUsize(column - scroll_offset + adj_scroll_offset)

\* find_tile_index(column, scroll_offset, adj_scroll_offset)
find_tile_index(column, scroll_offset, adj_scroll_offset) ==
    AsUsize(column + scroll_offset - adj_scroll_offset)

\* slice.get(i) / slice[i] on a Vec held as a sequence: index i is element i + 1.
InRange(seq, i) == i >= 0 /\ i < Len(seq)

\* ---- Menu::select_tile.  The Menu and the cache it works on are threaded as
\*   [c |-> cache, rows, selected_tile, grid_root, ok |-> no panic so far,
\*    found |-> what the call resolved (history)].

\* What a select_tile call that changed nothing reports.
NotFound == [hit |-> FALSE, index |-> 0, prev |-> root]

\* The tile scaled down to new_width x new_height about its centre (lines 115-130),
\* and the change of size.
shrink(c, cur, width, height, new_width, new_height, guard) ==
    [c |-> clear_border(
               IF guard
               THEN set_origin(set_bounds(c, cur, new_width, new_height), cur,
                               c[cur].props.origin[1] + TruncDiv(width - new_width, 2),
                               c[cur].props.origin[2] + TruncDiv(height - new_height, 2))
               ELSE c,
               cur),
     delta |-> <<width - new_width, height - new_height>>]

\* Faulty variant: the shrink guard is dropped, every tile is scaled down.
deselect_Unguarded(c, cur) ==
    shrink(c, cur, c[cur].props.bounds[1], c[cur].props.bounds[2],
           ScaleDown(c[cur].props.bounds[1]), ScaleDown(c[cur].props.bounds[2]),
           TRUE)

\* "Deselect the current tile and scale it down, if necessary" (lines 108-132).
deselect(c, cur) ==
    shrink(c, cur, c[cur].props.bounds[1], c[cur].props.bounds[2],
           ScaleDown(c[cur].props.bounds[1]), ScaleDown(c[cur].props.bounds[2]),
           c[cur].props.bounds[1] # TILE_WIDTH /\ c[cur].props.bounds[2] # TILE_HEIGHT)

\* "Select the new tile and scale it up" (lines 135-149), after deselect gave
\* off = [c, delta]: the cache and the new origin of the tile.
enlarge(off, tile) ==
    [c |-> set_border(
               set_origin(
                   set_bounds(off.c, tile,
                              off.c[tile].props.bounds[1] + off.delta[1],
                              off.c[tile].props.bounds[2] + off.delta[2]),
                   tile,
                   off.c[tile].props.origin[1] - TruncDiv(off.delta[1], 2),
                   off.c[tile].props.origin[2] - TruncDiv(off.delta[2], 2)),
               tile, "white", CURSOR_BORDER_WIDTH),
     at |-> <<off.c[tile].props.origin[1] - TruncDiv(off.delta[1], 2),
              off.c[tile].props.origin[2] - TruncDiv(off.delta[2], 2)>>]

\* Faulty variant: an up-move scrolls even when the grid is at its first row.
scroll_page_PastTop(on, g, cur_row, row) ==
    [at |-> on.at] @@
    (IF cur_row > row
     THEN IF on.at[2] + TILE_HEIGHT < TruncDiv(on.c[root].props.bounds[2], 2)
          THEN translate(on.c, g, 0, ROW_HEIGHT)
          ELSE [c |-> on.c, ok |-> TRUE]
     ELSE IF cur_row < row
     THEN IF on.at[2] - TILE_HEIGHT > TruncDiv(on.c[root].props.bounds[2], 2)
          THEN translate(on.c, g, 0, -ROW_HEIGHT)
          ELSE [c |-> on.c, ok |-> TRUE]
     ELSE [c |-> on.c, ok |-> TRUE])

\* "Scroll the entire page up and down, if necessary" (lines 151-170), after
\* enlarge gave on = [c, at]: the cache as translate returns it, and the origin of
\* the new tile as computed before the scroll.
scroll_page(on, g, cur_row, row) ==
    [at |-> on.at] @@
    (IF cur_row > row
     THEN IF /\ on.at[2] + TILE_HEIGHT < TruncDiv(on.c[root].props.bounds[2], 2)
             /\ on.c[g].props.origin[2] < on.c[root].props.origin[2]
          THEN translate(on.c, g, 0, ROW_HEIGHT)
          ELSE [c |-> on.c, ok |-> TRUE]
     ELSE IF cur_row < row
     THEN IF on.at[2] - TILE_HEIGHT > TruncDiv(on.c[root].props.bounds[2], 2)
          THEN translate(on.c, g, 0, -ROW_HEIGHT)
          ELSE [c |-> on.c, ok |-> TRUE]
     ELSE [c |-> on.c, ok |-> TRUE])

\* Faulty variant: a row is never scrolled back to the left.
scroll_step_NoLeft(paged, anchor_id, cur_column, column) ==
    IF cur_column < column /\ paged.at[1] + TILE_WIDTH > paged.c[root].props.bounds[1]
    THEN -1 ELSE 0

\* The step (+1, -1 or 0) by which the row is scrolled (lines 172-190), decided
\* on the cache after the page scroll.
scroll_step(paged, anchor_id, cur_column, column) ==
    IF cur_column > column
    THEN IF /\ paged.at[1] < paged.c[root].props.origin[1]
            /\ paged.c[anchor_id].props.origin[1] < paged.c[root].props.origin[1]
         THEN 1 ELSE 0
    ELSE IF cur_column < column
    THEN IF paged.at[1] + TILE_WIDTH > paged.c[root].props.bounds[1] THEN -1 ELSE 0
    ELSE 0

\* "Scroll the current row left and right, if necessary": the cache as translate
\* returns it, and the step made.
scroll_row(paged, anchor_id, step) ==
    [step |-> step] @@
    (IF paged.ok /\ step # 0
     THEN translate(paged.c, anchor_id, step * (TILE_WIDTH + TILE_MARGIN), 0)
     ELSE [c |-> paged.c, ok |-> paged.ok])

\* The Menu once the widgets are rearranged (lines 186-194): the scroll offset of
\* the row at cur_row moves by the step, and the selection is (row, index).
reselected(m, cur_row, row, found, scrolled) ==
    IF ~scrolled.ok
    THEN [m EXCEPT !.c = scrolled.c, !.ok = FALSE, !.found = found]
    ELSE [m EXCEPT !.c = scrolled.c,
                   !.rows[cur_row + 1][2] = @ + scrolled.step,
                   !.selected_tile = <<row, found.index>>,
                   !.found = found]

\* The borrow state of the RefCell<W> of a cache entry: the Ref and RefMut guards
\* that are alive.
NoBorrow == [shared |-> 0, mut |-> 0]

\* The guards of a select_tile call replayed in program order from event i on, on
\* the cells of the widgets: get / get_mut take a guard as RefCell::borrow and
\* RefCell::borrow_mut do (a refused borrow aborts), drop / drop_mut release one.
RECURSIVE Replay(_, _, _)
Replay(cells, evs, i) ==
    IF i > Len(evs) THEN [cells |-> cells, ok |-> TRUE]
    ELSE LET kind == evs[i][1]
             id == evs[i][2]
             cell == cells[id]
         IN IF kind = "get"
            THEN IF cell.mut > 0 THEN [cells |-> cells, ok |-> FALSE]
                 ELSE Replay([cells EXCEPT ![id].shared = @ + 1], evs, i + 1)
            ELSE IF kind = "get_mut"
            THEN IF cell.mut > 0 \/ cell.shared > 0 THEN [cells |-> cells, ok |-> FALSE]
                 ELSE Replay([cells EXCEPT ![id].mut = @ + 1], evs, i + 1)
            ELSE IF kind = "drop"
            THEN Replay([cells EXCEPT ![id].shared = @ - 1], evs, i + 1)
            ELSE Replay([cells EXCEPT ![id].mut = @ - 1], evs, i + 1)

\* Faulty variant: the RefMut of the deselected tile lives to the end of the call.
select_tile_guards_Overlapping(cur, tile, g, anchor_id, up, left) ==
    <<<<"get_mut", cur>>, <<"get_mut", tile>>, <<"drop_mut", tile>>,
      <<"get", root>>, <<"drop", root>>, <<"get", root>>, <<"drop", root>>>>
    \o (IF up THEN <<<<"get", g>>, <<"drop", g>>>> ELSE <<>>)
    \o (IF left THEN <<<<"get", anchor_id>>, <<"drop", anchor_id>>>> ELSE <<>>)
    \o <<<<"drop_mut", cur>>>>

\* The guards select_tile takes outside translate, in program order: `tile` of the
\* deselect block (lines 108-132) and `tile` of the select block (135-149), each
\* dropped at the end of its block; the temporaries widgets.get(root) (152, 153),
\* widgets.get(self.grid_root) (156, when cur_row > row) and widgets.get(anchor_id)
\* (174, when cur_column > column), each dropped at the end of its statement.
select_tile_guards(cur, tile, g, anchor_id, up, left) ==
    <<<<"get_mut", cur>>, <<"drop_mut", cur>>, <<"get_mut", tile>>, <<"drop_mut", tile>>,
      <<"get", root>>, <<"drop", root>>, <<"get", root>>, <<"drop", root>>>>
    \o (IF up THEN <<<<"get", g>>, <<"drop", g>>>> ELSE <<>>)
    \o (IF left THEN <<<<"get", anchor_id>>, <<"drop", anchor_id>>>> ELSE <<>>)

\* Whether the guards of the call are all granted, starting with no guard alive
\* (select_tile holds the cache by &mut), and all released when it returns.
guards_granted(c, evs) ==
    \E r \in {Replay([n \in DOMAIN c |-> NoBorrow], evs, 1)} :
        r.ok /\ \A n \in DOMAIN c : r.cells[n] = NoBorrow

\* Menu::select_tile(row, column, widgets)
select_tile(m, row, column) ==
    LET cur_row == m.selected_tile[1]
        cur_column == m.selected_tile[2]
    IN
    IF ~InRange(m.rows, cur_row)
    THEN [m EXCEPT !.ok = FALSE, !.found = NotFound]       \* self.rows[cur_row]
    ELSE
    LET cur_tile_id == m.rows[cur_row + 1][1]
        cur_scroll_offset == m.rows[cur_row + 1][2]
    IN
    IF ~InRange(m.rows, row)
    THEN [m EXCEPT !.found = NotFound]                     \* self.rows.get(row) is None
    ELSE
    LET anchor_id == m.rows[row + 1][1]
        scroll_offset == m.rows[row + 1][2]
        tile_ids == get_children_of(m.c, anchor_id)
        index == find_tile_index(column, cur_scroll_offset, scroll_offset)
    IN
    IF ~InRange(tile_ids, index)
    THEN [m EXCEPT !.found = [NotFound EXCEPT !.index = index]]  \* tile_ids.get(column)
    ELSE IF ~InRange(get_children_of(m.c, cur_tile_id), cur_column)
    THEN [m EXCEPT !.ok = FALSE,                           \* ..children_of(..)[cur_column]
                   !.found = [NotFound EXCEPT !.index = index]]
    ELSE
    LET cur == get_children_of(m.c, cur_tile_id)[cur_column + 1]
        paged == scroll_page(enlarge(deselect(m.c, cur), tile_ids[index + 1]),
                             m.grid_root, cur_row, row)
    IN IF ~guards_granted(m.c, select_tile_guards(cur, tile_ids[index + 1], m.grid_root,
                                                  anchor_id, cur_row > row,
                                                  cur_column > index))
       THEN [m EXCEPT !.ok = FALSE,                        \* "already borrowed"
                      !.found = [hit |-> TRUE, index |-> index, prev |-> cur]]
       ELSE reselected(m, cur_row, row, [hit |-> TRUE, index |-> index, prev |-> cur],
                       scroll_row(paged, anchor_id,
                                  scroll_step(paged, anchor_id, cur_column, index)))

\* ---- Menu::initialize.  A document (home.json, parsed) is given as the sequence
\* of its containers: the number of items of a curated set, or RefSet for a Set::Ref.
RefSet == -1

\* The image URL of item j of row i (distinct tiles may share an image).
UrlOf(i, j) == IF (i + j) % 2 = 0 THEN "u1" ELSE "u2"

\* Widgets::insert(widget, parent) on the threaded state; the new id is m.next_id.
Inserted(m, widget, parent) ==
    IF parent \notin DOMAIN m.c THEN [m EXCEPT !.ok = FALSE]
    ELSE [m EXCEPT !.c = insert(m.c, m.next_id, widget, parent),
                   !.next_id = @ + 1,
                   !.log = Append(@, <<m.next_id, parent>>)]

\* `for (j, tile) in items.iter().enumerate()` from item j on (lines 254-265).
RECURSIVE add_tiles(_, _, _, _, _, _)
add_tiles(m, row_id, i, j, items, y) ==
    IF j >= items THEN m
    ELSE add_tiles(Inserted(m, new_tile(RIGHT_MARGIN + j * (TILE_WIDTH + TILE_MARGIN), y,
                                        UrlOf(i, j)),
                            row_id),
                   row_id, i, j + 1, items, y)

\* `for (i, row) in rows.iter().enumerate()` from row i on (lines 220-271).
RECURSIVE add_rows(_, _, _, _)
add_rows(m, doc, i, max_width) ==
    IF i >= Len(doc) THEN m
    ELSE LET label == new_label(LABEL_POINT_SIZE, RIGHT_MARGIN,
                                TOP_MARGIN + i * ROW_HEIGHT, max_width)
             label_x == label.origin[1]
             label_y == label.origin[2]
             label_height == label.bounds[2]
             labelled == Inserted(m, label, m.grid_root)
         IN IF doc[i + 1] = RefSet THEN add_rows(labelled, doc, i + 1, max_width)
            ELSE LET row_id == labelled.next_id
                     anchored == Inserted(labelled, new_anchor(label_x, label_y),
                                          m.grid_root)
                     pushed == [anchored EXCEPT !.rows = Append(@, <<row_id, 0>>)]
                     tiled == add_tiles(pushed, row_id, i, 0, doc[i + 1],
                                        label_y + (label_height + LABEL_PADDING))
                     \* properties_mut().bounds.1 += ROW_HEIGHT: no invalidate()
                     grown == [tiled EXCEPT
                                 !.c[m.grid_root].props.bounds[2] = @ + ROW_HEIGHT]
                 IN add_rows(grown, doc, i + 1, max_width)

\* self.select_tile(self.selected_tile.0, self.selected_tile.1, widgets) (line 276)
select_first(m) == select_tile(m, m.selected_tile[1], m.selected_tile[2])

\* Menu::initialize(widgets) once home.json has been fetched and parsed into doc.
initialize(m, doc) ==
    select_first(add_rows([Inserted(m, new_anchor(0, 0), root)
                               EXCEPT !.grid_root = m.next_id],
                          doc, 0, m.c[root].props.bounds[1]))

\* The Menu and the cache as the threaded state of initialize / select_tile.
MenuState ==
    [c |-> cache, next_id |-> next_id, log |-> insertLog, rows |-> rows,
     selected_tile |-> selected_tile, grid_root |-> grid_root, ok |-> TRUE,
     found |-> NotFound]

\* ---- Thumbnail and the update hook.  A poll is threaded as
\*   [c |-> cache, dc |-> download table, started |-> download_file calls per Url].
\* poll_fetch blocks the main thread until the worker has answered, so the table
\* bookkeeping of process() is applied at once; the worker is taken to be running.

\* Thumbnail::poll_ready() of tile n: [st |-> threaded state, res |-> "none" for
\* Ok(None), "some" for Ok(Some(path)), "err" for Err(_)].
poll_ready(st, n) ==
    IF st.c[n].props.image.st = "ready" THEN [st |-> st, res |-> "some"]
    ELSE LET url == st.c[n].props.url
             r == process(st.dc, url)
             polled == [st EXCEPT !.dc = r.c,
                                  !.started[url] = IF r.download THEN @ + 1 ELSE @]
         IN IF r.resp.st = "pending" THEN [st |-> polled, res |-> "none"]
            ELSE IF r.resp.st = "ready"
            THEN [st |-> [polled EXCEPT !.c[n].props.image =
                                            [st |-> "ready", path |-> r.resp.path]],
                  res |-> "some"]
            ELSE [st |-> polled, res |-> "err"]       \* `result?`

\* Faulty variant: the tile is never asked to be redrawn.
update_hook_Silent(st, n) ==
    IF st.c[n].props.kind = "tile" THEN poll_ready(st, n).st ELSE st

\* WidgetKind::update() of widget n (lines 392-402).
update_hook(st, n) ==
    IF st.c[n].props.kind = "tile"
    THEN LET prev_state == st.c[n].props.image.st = "ready"
             p == poll_ready(st, n)
             next_state == p.res # "none"             \* .transpose().is_some()
         IN IF prev_state # next_state
            THEN [p.st EXCEPT !.c[n].props.invalidated = TRUE]
            ELSE p.st
    ELSE st

\* Widgets::is_invalidated()
is_invalidated(c) == \E n \in DOMAIN c : c[n].props.invalidated

\* Faulty variant: the Err of poll_ready is returned by draw.
thumbnail_Propagated(res) ==
    IF res = "some" THEN "thumbnail" ELSE IF res = "err" THEN "err" ELSE "blank"

\* What the draw of a tile puts on its texture, given what poll_ready answered:
\* an Err is turned into None by `.ok()` and the tile is drawn blank.
thumbnail(res) == IF res = "some" THEN "thumbnail" ELSE "blank"

\* WidgetKind::draw() of Tile n, entry i of the pass (lines 434-455): the thumbnail
\* is polled and the tile drawn in its color, with the image over it if there is one.
tile_draw(p, i) == [p.st EXCEPT !.log[i].shown = thumbnail(p.res)]

\* WidgetKind::draw() of the tiles a render pass called it on, in the order of the
\* pass: each polls its thumbnail (line 439); nothing else of the widget changes.
RECURSIVE draw_hooks(_, _, _)
draw_hooks(st, log, i) ==
    IF i > Len(log) THEN st
    ELSE draw_hooks(IF log[i].called /\ st.c[log[i].id].props.kind = "tile"
                    THEN tile_draw(poll_ready(st, log[i].id), i)
                    ELSE st,
                    log, i + 1)

\* A W::draw of the pass returned Err.
DrawErr(log) == \E i \in 1..Len(log) : log[i].shown = "err"

\* The least tile at or after widget k, or next_id if there is none.
RECURSIVE NextTile(_, _)
NextTile(c, k) ==
    IF k \notin DOMAIN c THEN k
    ELSE IF c[k].props.kind = "tile" THEN k
    ELSE NextTile(c, k + 1)

----
\* The window sizes the platform reports (at start and after a fullscreen toggle),
\* and the documents home.json may hold.
Viewports == {<<800, 400>>, <<1400, 900>>}
MenuDocuments == {<<>>, <<0, 1>>, <<RefSet, 2>>, <<3, 2>>, <<MaxTiles>>}
AppDocuments == {<<2>>}

\* The history of the keys handled since initialize, for as long as they are
\* move_right keys that found a tile followed by move_left keys that found one, in
\* a viewport that did not change: how many of each, whether a row was scrolled,
\* and the x of the anchor and the scroll offset of row 0 when initialize returned.
NoTrip == [on |-> FALSE, rights |-> 0, lefts |-> 0, scrolled |-> FALSE, x |-> 0,
           offset |-> 0]

\* The history of select_tile calls when none was made since the last frame.
NoMove == [row |-> 0, column |-> 0, found |-> NotFound, trip |-> NoTrip]

\* Menu::new(fetcher) and App::main_loop up to Widgets::new(self.root_widget, ..).
InitMenu ==
    /\ rows = <<>>
    /\ selected_tile = <<0, 0>>
    /\ grid_root = root
    /\ pc = [at |-> "new", k |-> 0]
    /\ lastMove = NoMove
    /\ nFailures = 0
    /\ nToggles = 0

\* The history record of a select_tile(row, column) call: its arguments, whether
\* it found the tile, the child index it resolved and the tile it deselected.
MoveRecord(row, column, found) ==
    [row |-> row, column |-> column, found |-> found, trip |-> NoTrip]

\* The trip that starts when initialize has returned m with a tile selected.
StartTrip(m) ==
    IF m.ok /\ m.found.hit
    THEN [NoTrip EXCEPT !.on = TRUE,
                        !.x = m.c[m.rows[1][1]].props.origin[1],
                        !.offset = m.rows[1][2]]
    ELSE NoTrip

\* The trip t after key op was handled and left the Menu as m.
Tripped(t, op, m) ==
    IF ~(t.on /\ m.ok /\ m.found.hit) THEN NoTrip
    ELSE IF op = "move_right" /\ t.lefts = 0
    THEN [t EXCEPT !.rights = @ + 1, !.scrolled = @ \/ m.rows # rows]
    ELSE IF op = "move_left" /\ t.lefts < t.rights
    THEN [t EXCEPT !.lefts = @ + 1, !.scrolled = @ \/ m.rows # rows]
    ELSE NoTrip

\* The variables a Menu operation leaves in threaded state m.
MenuStored(m) ==
    /\ cache' = m.c
    /\ next_id' = m.next_id
    /\ insertLog' = m.log
    /\ rows' = m.rows
    /\ selected_tile' = m.selected_tile
    /\ grid_root' = m.grid_root
    /\ wstatus' = IF m.ok THEN "ok" ELSE "panicked"
    /\ drawLog' = <<>>
    /\ UNCHANGED <<nTranslates, nFailures, nToggles>>

\* self.state.initialize(&mut widgets)?  with home.json fetched and parsed as doc.
Initialize(doc) ==
    /\ wstatus = "ok"
    /\ pc.at = "new"
    /\ LET m == initialize(MenuState, doc) IN
         /\ MenuStored(m)
         /\ lastMove' = [MoveRecord(0, 0, m.found) EXCEPT !.trip = StartTrip(m)]
         /\ pc' = IF m.ok THEN [at |-> "events", k |-> 0] ELSE pc
    /\ lastOp' = [op |-> "initialize", id |-> root, d |-> <<0, 0>>]
    /\ UNCHANGED <<fvars, bvars, ovars, pvars>>

\* initialize returns Err: home.json cannot be fetched, read or parsed (lines
\* 215-217), after grid_root was inserted; main_loop returns the error.
InitializeFails ==
    /\ wstatus = "ok"
    /\ pc.at = "new"
    /\ LET m == Inserted(MenuState, new_anchor(0, 0), root) IN
         MenuStored([m EXCEPT !.grid_root = next_id])
    /\ pc' = [at |-> "failed", k |-> 0]
    /\ lastOp' = [op |-> "initialize_failed", id |-> root, d |-> <<0, 0>>]
    /\ UNCHANGED <<lastMove, fvars, bvars, ovars, pvars>>

\* A key event handled by Menu::handle_event: select_tile(row, column).
Move(op, row, column) ==
    /\ wstatus = "ok"
    /\ pc.at = "events"
    /\ LET m == select_tile(MenuState, row, column) IN
         /\ MenuStored(m)
         /\ lastMove' = [MoveRecord(row, column, m.found)
                            EXCEPT !.trip = Tripped(lastMove.trip, op, m)]
    /\ lastOp' = [op |-> op, id |-> root, d |-> <<0, 0>>]
    /\ UNCHANGED <<pc, fvars, bvars, ovars, pvars>>

\* Faulty variant: the subtraction wraps around below zero.
saturating_sub_Wrapping(n, k) == AsUsize(n - k)

\* row.saturating_sub(1) / column.saturating_sub(1)
saturating_sub(n, k) == IF n >= k THEN n - k ELSE 0

MoveUp == Move("move_up", saturating_sub(selected_tile[1], 1), selected_tile[2])

MoveDown == Move("move_down", selected_tile[1] + 1, selected_tile[2])

MoveLeft == Move("move_left", selected_tile[1], saturating_sub(selected_tile[2], 1))

MoveRight == Move("move_right", selected_tile[1], selected_tile[2] + 1)

\* Action::Fullscreen: fullscreen(f, window, widgets) sets the root's bounds to the
\* size the window reports after the switch.
ToggleFullscreen(size) ==
    /\ wstatus = "ok"
    /\ pc.at = "events"
    /\ size # cache[root].props.bounds
    /\ nToggles < MaxToggles
    /\ cache' = set_bounds(cache, root, size[1], size[2])
    /\ nToggles' = nToggles + 1
    /\ lastOp' = [op |-> "fullscreen", id |-> root, d |-> <<0, 0>>]
    /\ lastMove' = [lastMove EXCEPT !.trip = NoTrip]
    /\ drawLog' = <<>>
    /\ UNCHANGED <<next_id, wstatus, insertLog, nTranslates>>
    /\ UNCHANGED <<rows, selected_tile, grid_root, pc, nFailures>>
    /\ UNCHANGED <<fvars, bvars, ovars, pvars>>

\* ---- App::main_loop: events, then widgets.update(), then the render decision.

\* The fetcher variables the main thread's polls do not touch.
fidle == <<engine, worker, aborted, request_ch, response_ch, tasks, caller, last,
           dropSnap, lastSend>>

\* The poll state of the update hook and of the tiles' draw.
PollState == [c |-> cache, dc |-> download_cache, started |-> started, log |-> <<>>]

\* `for event in events.poll_iter()` has handled every pending event.
EventsDone ==
    /\ wstatus = "ok"
    /\ pc.at = "events"
    /\ pc' = [at |-> "update", k |-> NextTile(cache, 0)]
    /\ lastOp' = [op |-> "events_done", id |-> root, d |-> <<0, 0>>]
    /\ lastMove' = NoMove
    /\ drawLog' = <<>>
    /\ UNCHANGED <<cache, next_id, wstatus, insertLog, nTranslates>>
    /\ UNCHANGED <<rows, selected_tile, grid_root, nFailures, nToggles>>
    /\ UNCHANGED <<fvars, bvars, ovars, pvars>>

\* Event::Quit or the Escape key: Action::Quit leaves the loop.
Quit ==
    /\ wstatus = "ok"
    /\ pc.at = "events"
    /\ pc' = [at |-> "quit", k |-> 0]
    /\ lastOp' = [op |-> "quit", id |-> root, d |-> <<0, 0>>]
    /\ lastMove' = NoMove
    /\ drawLog' = <<>>
    /\ UNCHANGED <<cache, next_id, wstatus, insertLog, nTranslates>>
    /\ UNCHANGED <<rows, selected_tile, grid_root, nFailures, nToggles>>
    /\ UNCHANGED <<fvars, bvars, ovars, pvars>>

\* widgets.update(), one widget at a time: the update hook of the next tile (the
\* hook of every other kind of widget does nothing).
UpdateTile ==
    /\ wstatus = "ok"
    /\ pc.at = "update"
    /\ pc.k \in DOMAIN cache
    /\ LET st == update_hook(PollState, pc.k) IN
         /\ cache' = st.c
         /\ download_cache' = st.dc
         /\ started' = st.started
    /\ pc' = [at |-> "update", k |-> NextTile(cache, pc.k + 1)]
    /\ lastOp' = [op |-> "update", id |-> pc.k, d |-> <<0, 0>>]
    /\ drawLog' = <<>>
    /\ UNCHANGED <<next_id, wstatus, insertLog, nTranslates, files>>
    /\ UNCHANGED <<rows, selected_tile, grid_root, lastMove, nFailures, nToggles>>
    /\ UNCHANGED <<fidle, bvars, ovars, pvars>>

\* widgets.update() has visited every widget.
UpdateDone ==
    /\ wstatus = "ok"
    /\ pc.at = "update"
    /\ pc.k \notin DOMAIN cache
    /\ pc' = [at |-> "render", k |-> 0]
    /\ lastOp' = [op |-> "update_done", id |-> root, d |-> <<0, 0>>]
    /\ drawLog' = <<>>
    /\ UNCHANGED <<cache, next_id, wstatus, insertLog, nTranslates>>
    /\ UNCHANGED <<rows, selected_tile, grid_root, lastMove, nFailures, nToggles>>
    /\ UNCHANGED <<fvars, bvars, ovars, pvars>>

\* `if widgets.is_invalidated() { widgets.draw(canvas)?; }` with every platform call
\* succeeding, then the sleep until the next frame.
Render ==
    /\ wstatus = "ok"
    /\ pc.at = "render"
    /\ IF is_invalidated(cache)
       THEN LET pass == draw_widget(RenderPass(cache, Unlimited), root)
                st == draw_hooks([PollState EXCEPT !.c = pass.c, !.log = pass.log],
                                 pass.log, 1)
            IN /\ cache' = st.c
               /\ download_cache' = st.dc
               /\ started' = st.started
               /\ drawLog' = st.log
               /\ lastOp' = [op |-> IF DrawErr(st.log) THEN "draw_failed" ELSE "draw",
                             id |-> root, d |-> <<0, 0>>]
               /\ pc' = [at |-> IF DrawErr(st.log) THEN "failed" ELSE "events",
                         k |-> 0]
       ELSE /\ lastOp' = [op |-> "skip", id |-> root, d |-> <<0, 0>>]
            /\ drawLog' = <<>>
            /\ pc' = [at |-> "events", k |-> 0]
            /\ UNCHANGED <<cache, download_cache, started>>
    /\ UNCHANGED <<next_id, wstatus, insertLog, nTranslates, files>>
    /\ UNCHANGED <<rows, selected_tile, grid_root, lastMove, nFailures, nToggles>>
    /\ UNCHANGED <<fidle, bvars, ovars, pvars>>

\* widgets.draw(canvas)? returns Err: the platform call after `fuel` successful ones
\* fails, and main_loop returns the error.
RenderFails(fuel) ==
    /\ wstatus = "ok"
    /\ pc.at = "render"
    /\ is_invalidated(cache)
    /\ LET pass == draw_widget(RenderPass(cache, fuel), root)
           st == draw_hooks([PollState EXCEPT !.c = pass.c, !.log = pass.log],
                            pass.log, 1)
       IN /\ ~pass.ok
          /\ cache' = st.c
          /\ download_cache' = st.dc
          /\ started' = st.started
          /\ drawLog' = st.log
    /\ lastOp' = [op |-> "draw_failed", id |-> root, d |-> <<0, 0>>]
    /\ pc' = [at |-> "failed", k |-> 0]
    /\ UNCHANGED <<next_id, wstatus, insertLog, nTranslates, files>>
    /\ UNCHANGED <<rows, selected_tile, grid_root, lastMove, nFailures, nToggles>>
    /\ UNCHANGED <<fidle, bvars, ovars, pvars>>

\* The main loop is running (between initialize and the return of main_loop).
Running == wstatus = "ok" /\ pc.at \in {"events", "update", "render"}

\* The temporary file a download of url is written to.
FileOf(url) == IF url = "u1" THEN 1 ELSE 2

\* On the worker thread, the download of a thumbnail ends with the file on disk.
ThumbnailArrives(u) ==
    /\ Running
    /\ download_cache[u].st = "pending"
    /\ LET r == complete(download_cache, files \cup {FileOf(u)}, u, FileOf(u), TRUE) IN
         /\ download_cache' = r.c
         /\ files' = r.files
    /\ UNCHANGED <<engine, worker, aborted, request_ch, response_ch, tasks, caller,
                   started, last, dropSnap>>
    /\ UNCHANGED <<wvars, mvars, bvars, ovars, pvars, lastSend>>

\* On the worker thread, the download of a thumbnail ends with an error.
ThumbnailFails(u) ==
    /\ Running
    /\ download_cache[u].st = "pending"
    /\ nFailures < MaxFailures
    /\ LET r == complete(download_cache, files, u, NoPath, FALSE) IN
         /\ download_cache' = r.c
         /\ files' = r.files
    /\ nFailures' = nFailures + 1
    /\ UNCHANGED <<engine, worker, aborted, request_ch, response_ch, tasks, caller,
                   started, last, dropSnap>>
    /\ UNCHANGED <<rows, selected_tile, grid_root, pc, lastMove, nToggles>>
    /\ UNCHANGED <<wvars, bvars, ovars, pvars, lastSend>>

\* Widgets::new(self.root_widget, textures) for a window of the given size.
InitAppWidgets ==
    /\ \E size \in Viewports :
          cache = (root :> CacheEntry(new_root(size[1], size[2]), root))
    /\ next_id = 1
    /\ wstatus = "ok"
    /\ insertLog = <<>>
    /\ lastOp = [op |-> "new", id |-> root, d |-> <<0, 0>>]
    /\ nTranslates = 0
    /\ drawLog = <<>>

\* The navigation of the menu: every document, every key, no frame.
NextMenu ==
    \/ \E doc \in MenuDocuments : Initialize(doc)
    \/ InitializeFails
    \/ MoveUp
    \/ MoveDown
    \/ MoveLeft
    \/ MoveRight
    \/ \E size \in Viewports : ToggleFullscreen(size)

\* The running application: events, ticks and frames, with the worker's downloads.
NextApp ==
    \/ \E doc \in AppDocuments : Initialize(doc)
    \/ InitializeFails
    \/ MoveUp
    \/ MoveDown
    \/ MoveLeft
    \/ MoveRight
    \/ \E size \in Viewports : ToggleFullscreen(size)
    \/ EventsDone
    \/ Quit
    \/ UpdateTile
    \/ UpdateDone
    \/ Render
    \/ \E fuel \in 0..MaxFuel : RenderFails(fuel)
    \/ \E u \in Urls : ThumbnailArrives(u)
    \/ \E u \in Urls : ThumbnailFails(u)

(***************************************************************************)
(* Properties of the running application                                   *)
(***************************************************************************)

\* What of a widget its texture shows: bounds, color, border and thumbnail state.
Shown(p) == <<p.bounds, p.color, p.border, p.image.st>>

\* The render pass recorded in log redrew node n and copied it to the canvas.
Redrawn(log, n) == \E i \in 1..Len(log) : log[i].id = n /\ log[i].draw /\ log[i].copy

\* The step is the render decision of the main loop (Render or RenderFails).
Frame == pc.at = "render" /\ pc'.at # "render"

\* C13: in every step of the running application, a node whose bounds, color,
\* border or thumbnail state changes ends the step invalidated, unless the step is
\* the render pass that redrew it with the change; a new node starts invalidated;
\* and a node's flag goes from true to false only in a render pass that redrew
\* that node and copied it to the canvas.
C13_InvalidatedTracksChanges ==
    [][\A n \in DOMAIN cache' :
          IF n \notin DOMAIN cache THEN cache'[n].props.invalidated
          ELSE /\ Shown(cache'[n].props) # Shown(cache[n].props) =>
                    \/ cache'[n].props.invalidated
                    \/ /\ lastOp'.op \in {"draw", "draw_failed"}
                       /\ Redrawn(drawLog', n)
               /\ (cache[n].props.invalidated /\ ~cache'[n].props.invalidated) =>
                    /\ lastOp'.op \in {"draw", "draw_failed"}
                    /\ Redrawn(drawLog', n)]_vars

\* A key event has just resized a tile that was up to date on the canvas (it has its
\* texture and its thumbnail is drawn) and the tile is invalidated again, while
\* a label, redrawn by an earlier frame, is still up to date.
C13_Witness ==
    /\ lastOp.op \in {"move_left", "move_right"}
    /\ lastMove.found.hit
    /\ \E n, k \in DOMAIN cache :
          /\ cache[n].props.kind = "tile" /\ cache[k].props.kind = "label"
          /\ cache[n].props.invalidated
          /\ cache[n].texture.texture # NoTexture
          /\ cache[n].props.bounds # <<cache[n].texture.width, cache[n].texture.height>>
          /\ cache[n].props.image.st = "ready"
          /\ cache[k].texture.texture # NoTexture
          /\ ~cache[k].props.invalidated

\* C14: once a frame has been rendered no node is left invalidated, so that
\* is_invalidated() is false and the main loop skips the render pass on the ticks
\* that follow, until an event or a thumbnail changes a widget.
C14_RenderSkippedWhenIdle ==
    [][(Frame /\ lastOp'.op = "draw") => ~is_invalidated(cache')]_vars

\* C15: in a render pass, a node that is rendered gets a new texture exactly when
\* it holds none or the one it holds has not the node's width and height; otherwise
\* it keeps the texture it has; either way it ends the pass holding a texture of
\* its own size.  Hence no texture is created in a pass that follows a pass with
\* the bounds unchanged.
C15_TextureCreatedIffResized ==
    [][(Frame /\ lastOp'.op \in {"draw", "draw_failed"}) =>
        \A i \in 1..Len(drawLog') :
           LET n == drawLog'[i].id IN
           drawLog'[i].copy =>
              /\ drawLog'[i].create <=> cache[n].texture.texture # cache[n].props.bounds
              /\ ~drawLog'[i].create => cache'[n].texture = cache[n].texture
              /\ cache'[n].texture.texture = cache'[n].props.bounds
              /\ cache'[n].props.bounds = cache[n].props.bounds]_vars

\* A frame in which a tile, resized by a key event since the frame that gave it
\* and the labels their textures, got a new texture while a label kept its own.
C15_Witness ==
    /\ lastOp.op = "draw"
    /\ \E i, j \in 1..Len(drawLog) :
          /\ cache[drawLog[i].id].props.kind = "tile"
          /\ drawLog[i].create /\ drawLog[i].copy
          /\ cache[drawLog[j].id].props.kind = "label"
          /\ ~drawLog[j].create /\ drawLog[j].copy

\* Every platform call of the pass recorded in log succeeded: each visible node
\* was reached and copied to the canvas.
Completed(log, c) ==
    \A n \in DOMAIN c :
       ~c[n].props.hidden => \E i \in 1..Len(log) : log[i].id = n /\ log[i].copy

\* Entry i of the pass is the draw of a pending tile whose download has failed, and
\* whose Url no tile drawn before it in the pass has polled.
FailedAtDraw(log, i) ==
    /\ log[i].called
    /\ cache[log[i].id].props.kind = "tile"
    /\ cache[log[i].id].props.image.st = "pending"
    /\ download_cache[cache[log[i].id].props.url].st = "failed"
    /\ \A j \in 1..(i - 1) :
          log[j].called => cache[log[j].id].props.url # cache[log[i].id].props.url

\* C26: when the update hook of a pending tile finds its download failed, the hook
\* returns, the tick goes on, and the tile is still pending; when the draw of a
\* pending tile finds its download failed, the tile is drawn blank and is still
\* pending, and the frame succeeds if every platform call does; either way the
\* failed entry has left the download table, and the next poll of a pending tile
\* whose Url is not in the table starts a download of it.
C26_FailedThumbnailIsBlank ==
    [][/\ (pc.at = "update" /\ pc' # pc /\ lastOp'.op = "update") =>
             LET url == cache[pc.k].props.url IN
             /\ (/\ cache[pc.k].props.image.st = "pending"
                  /\ download_cache[url].st = "failed") =>
                    /\ wstatus' = "ok"
                    /\ pc'.at = "update"
                    /\ cache'[pc.k].props.image = cache[pc.k].props.image
                    /\ download_cache'[url] = Absent
                    /\ started' = started
             /\ (/\ cache[pc.k].props.image.st = "pending"
                  /\ download_cache[url].st = "absent") =>
                    /\ download_cache'[url] = PendingEntry
                    /\ started'[url] = started[url] + 1
       /\ Frame =>
             \A i \in 1..Len(drawLog') :
                FailedAtDraw(drawLog', i) =>
                   /\ wstatus' = "ok"
                   /\ drawLog'[i].shown = "blank"
                   /\ cache'[drawLog'[i].id].props.image
                         = cache[drawLog'[i].id].props.image
                   /\ download_cache'[cache[drawLog'[i].id].props.url].st # "failed"
                   /\ Completed(drawLog', cache) => lastOp'.op = "draw"]_vars

\* A frame has drawn, blank, a tile whose download had failed: the frame succeeded,
\* the tile is still pending and its Url has left the download table.
C26_Witness ==
    /\ lastOp.op = "draw"
    /\ nFailures > 0
    /\ \E i \in 1..Len(drawLog) :
          /\ drawLog[i].shown = "blank"
          /\ drawLog[i].draw /\ drawLog[i].copy
          /\ cache[drawLog[i].id].props.image.st = "pending"
          /\ download_cache[cache[drawLog[i].id].props.url].st = "absent"

\* The tiles of cache c.
Tiles(c) == {n \in DOMAIN c : c[n].props.kind = "tile"}

\* The step is the update hook of tile pc.k.
Tick == pc.at = "update" /\ pc' # pc /\ pc.k \in DOMAIN cache

\* C27: the main loop goes from the events to the update hooks of all the tiles,
\* one after the other, and only then to the render decision.  The hook of a
\* pending tile whose download has succeeded makes the tile ready and marks it
\* invalidated; the hook marks a tile whose download has not failed on no other
\* tick; the mark stays until the frame, which is rendered and, when it succeeds,
\* redraws the tile with its thumbnail.  A ready tile stays ready, its hook changes
\* nothing, and no step starts a download of its Url or changes its table entry.
C27_TickThenRender ==
    [][/\ (pc'.at = "update" /\ pc.at # "update") =>
             /\ pc.at = "events"
             /\ \A n \in Tiles(cache) : n >= pc'.k
       /\ (pc.at = "update" /\ pc' # pc) =>
             IF pc.k \in DOMAIN cache
             THEN /\ lastOp' = [op |-> "update", id |-> pc.k, d |-> <<0, 0>>]
                  /\ pc'.at = "update" /\ pc'.k > pc.k
                  /\ \A n \in Tiles(cache) : n <= pc.k \/ n >= pc'.k
             ELSE pc'.at = "render"
       /\ (pc'.at = "render" /\ pc.at # "render") =>
             /\ pc.at = "update"
             /\ \A n \in Tiles(cache) : n < pc.k
       /\ Tick =>
             LET old == cache[pc.k].props
                 new == cache'[pc.k].props
                 entry == download_cache[old.url]
             IN /\ (old.image.st = "pending" /\ entry.st = "ready") =>
                      /\ new.image = [st |-> "ready", path |-> entry.path]
                      /\ new.invalidated
                /\ (old.image.st = "pending" /\ entry.st # "failed"
                       /\ ~old.invalidated /\ new.invalidated) =>
                      (entry.st = "ready" /\ new.image.st = "ready")
                /\ old.image.st = "ready" => cache' = cache
       /\ \A n \in Tiles(cache) :
             cache[n].props.image.st = "ready" =>
                /\ cache'[n].props.image = cache[n].props.image
                /\ started'[cache[n].props.url] = started[cache[n].props.url]
                /\ download_cache'[cache[n].props.url]
                      = download_cache[cache[n].props.url]
       /\ ~Frame => \A n \in DOMAIN cache :
                       cache[n].props.invalidated => cache'[n].props.invalidated
       /\ (Frame /\ is_invalidated(cache)) => lastOp'.op \in {"draw", "draw_failed"}
       /\ (Frame /\ lastOp'.op = "draw") =>
             \A n \in Tiles(cache) :
                (cache[n].props.invalidated /\ cache[n].props.image.st = "ready") =>
                   /\ ~cache'[n].props.invalidated
                   /\ \E i \in 1..Len(drawLog') :
                         /\ drawLog'[i].id = n
                         /\ drawLog'[i].draw /\ drawLog'[i].copy
                         /\ drawLog'[i].shown = "thumbnail"]_vars

\* A frame has redrawn, with its thumbnail, a tile that an earlier frame had drawn
\* (its texture was kept), while the other tile, not invalidated, was only copied.
C27_Witness ==
    /\ lastOp.op = "draw"
    /\ \E i, j \in 1..Len(drawLog) :
          /\ drawLog[i].shown = "thumbnail"
          /\ drawLog[i].draw /\ drawLog[i].copy /\ ~drawLog[i].create
          /\ cache[drawLog[i].id].props.border = NoBorder
          /\ cache[drawLog[j].id].props.kind = "tile"
          /\ ~drawLog[j].called /\ drawLog[j].copy

(***************************************************************************)
(* Properties of the menu                                                  *)
(***************************************************************************)

\* The step is a key event handled by select_tile.
Moves == {"move_up", "move_down", "move_left", "move_right"}

\* In the Menu as it is, select_tile(row, column) has no tile to go to: the row
\* does not exist, or the resolved index is not one of the row's children.
NoTarget(row, column) ==
    \/ ~InRange(rows, row)
    \/ ~InRange(get_children_of(cache, rows[row + 1][1]),
                find_tile_index(column, rows[selected_tile[1] + 1][2],
                                rows[row + 1][2]))

\* C18: move_up at row 0 asks for row 0 and move_left at column 0 for column 0, and
\* the selection pair stays as it is; a move with no tile to go to changes nothing:
\* the selection, the rows' scroll offsets and every widget are as before, and the
\* call returns.
C18_MovesSaturateOrNoOp ==
    [][lastOp'.op \in Moves =>
        /\ (lastOp'.op = "move_up" /\ selected_tile[1] = 0) =>
              /\ lastMove'.row = 0 /\ lastMove'.column = selected_tile[2]
              /\ wstatus' = "ok" => selected_tile' = selected_tile
        /\ (lastOp'.op = "move_left" /\ selected_tile[2] = 0) =>
              /\ lastMove'.row = selected_tile[1] /\ lastMove'.column = 0
              /\ wstatus' = "ok" => selected_tile' = selected_tile
        /\ NoTarget(lastMove'.row, lastMove'.column) =>
              /\ wstatus' = "ok"
              /\ ~lastMove'.found.hit
              /\ UNCHANGED <<cache, next_id, rows, selected_tile, grid_root>>]_vars

\* A move_right in a row that has been scrolled found no tile to go to.
C18_Witness ==
    /\ lastOp.op = "move_right"
    /\ wstatus = "ok"
    /\ ~lastMove.found.hit
    /\ rows[selected_tile[1] + 1][2] # 0
    /\ NoTarget(lastMove.row, lastMove.column)

\* C19: select_tile(row, column) on an existing row resolves the child index
\* column + a - b, with a the scroll offset of the current row and b that of the
\* destination row (4, -1 and +1 give 2).  When that index is one of the row's
\* children, that child becomes the selection and gets the cursor border; when it
\* is negative or not less than the number of children, nothing changes.
C19_ColumnResolution ==
    /\ find_tile_index(4, -1, 1) = 2
    /\ \A c \in 0..MaxColumn, a \in (-MaxScroll)..MaxScroll, b \in (-MaxScroll)..MaxScroll,
          n \in 0..MaxColumn :
          /\ c + a - b >= 0 => find_tile_index(c, a, b) = c + a - b
          /\ InRange([i \in 1..n |-> i], find_tile_index(c, a, b))
                <=> (c + a - b >= 0 /\ c + a - b < n)
    /\ [][(lastOp'.op \in Moves /\ InRange(rows, lastMove'.row)) =>
            LET row == lastMove'.row
                a == rows[selected_tile[1] + 1][2]
                b == rows[row + 1][2]
                index == lastMove'.column + a - b
                kids == get_children_of(cache, rows[row + 1][1])
            IN IF index >= 0 /\ index < Len(kids)
               THEN wstatus' = "ok" =>
                       /\ lastMove'.found.hit
                       /\ lastMove'.found.index = index
                       /\ selected_tile' = <<row, index>>
                       /\ cache'[kids[index + 1]].props.border # NoBorder
                       /\ \A n \in DOMAIN cache :
                             n # kids[index + 1] => cache'[n].props.border = NoBorder
               ELSE /\ wstatus' = "ok"
                    /\ ~lastMove'.found.hit
                    /\ UNCHANGED <<cache, rows, selected_tile>>]_vars

\* A move between two rows with different scroll offsets selected a tile whose
\* child index is not the column asked for.
C19_Witness ==
    /\ lastOp.op \in {"move_up", "move_down"}
    /\ wstatus = "ok"
    /\ lastMove.found.hit
    /\ lastMove.found.index # lastMove.column
    /\ selected_tile = <<lastMove.row, lastMove.found.index>>

\* The origin Menu::initialize gives the tile at child index j of a row, relative
\* to the row's anchor (menu.rs:221-262).
RestingOffset(j) ==
    <<j * (TILE_WIDTH + TILE_MARGIN), ApproxHeight(LABEL_POINT_SIZE) + LABEL_PADDING>>

\* C20: when a move selects another tile, the tile selected before it is
\* TILE_WIDTH x TILE_HEIGHT again, is back at the origin it had before it was
\* enlarged (relative to its row anchor), and has no border; this includes the tile
\* highlighted by initialize.
C20_DeselectRestores ==
    [][(/\ lastOp'.op \in Moves
        /\ wstatus' = "ok"
        /\ lastMove'.found.hit
        /\ selected_tile' # selected_tile) =>
          LET prev == lastMove'.found.prev
              anchor == cache'[prev].parent
          IN /\ cache'[prev].props.bounds = <<TILE_WIDTH, TILE_HEIGHT>>
             /\ cache'[prev].props.border = NoBorder
             /\ cache'[prev].props.origin[1] - cache'[anchor].props.origin[1]
                   = RestingOffset(selected_tile[2])[1]
             /\ cache'[prev].props.origin[2] - cache'[anchor].props.origin[2]
                   = RestingOffset(selected_tile[2])[2]]_vars

\* The tile a move has just selected: child selected_tile'.column of the anchor of
\* row selected_tile'.row.
Selected(c, rs, sel) == get_children_of(c, rs[sel[1] + 1][1])[sel[2] + 1]

\* A resting side scaled up by CURSOR_SCALE_FACTOR: (side as f32 * 1.1) as u32.
ScaleUp(side) == F32MulTrunc(side, CURSOR_SCALE_FACTOR)

\* C21: a move that selects a tile leaves it ScaleUp(TILE_WIDTH) x
\* ScaleUp(TILE_HEIGHT) (550 x 309), the same on every selection, with its centre
\* where the centre of the resting tile is (to the odd pixel of the growth), and
\* with the white cursor border of thickness CURSOR_BORDER_WIDTH.
C21_SelectEnlarges ==
    [][(/\ lastOp'.op \in Moves
        /\ wstatus' = "ok"
        /\ lastMove'.found.hit) =>
          LET tile == Selected(cache', rows', selected_tile')
              anchor == cache'[tile].parent
              p == cache'[tile].props
              rest == RestingOffset(selected_tile'[2])
          IN /\ p.bounds = <<ScaleUp(TILE_WIDTH), ScaleUp(TILE_HEIGHT)>>
             /\ p.border = [color |-> "white", width |-> CURSOR_BORDER_WIDTH]
             /\ (2 * (p.origin[1] - cache'[anchor].props.origin[1]) + p.bounds[1])
                  - (2 * rest[1] + TILE_WIDTH) \in {-1, 0, 1}
             /\ (2 * (p.origin[2] - cache'[anchor].props.origin[2]) + p.bounds[2])
                  - (2 * rest[2] + TILE_HEIGHT) \in {-1, 0, 1}]_vars

\* C23: a move changes the y of the grid anchor only when it selects a tile of
\* another row, and then by one ROW_HEIGHT: down by -ROW_HEIGHT exactly when the top
\* of the tile selected, less TILE_HEIGHT, is below the middle of the viewport; up
\* by +ROW_HEIGHT exactly when the top of the tile selected plus TILE_HEIGHT is above
\* the middle and the grid anchor is above the root's y.  No other step moves the
\* grid anchor, and in every state its y is at most the root's y and a whole
\* number of ROW_HEIGHTs from it.
C23_VerticalScroll ==
    /\ [](/\ cache[grid_root].props.origin[2] <= cache[root].props.origin[2]
          /\ (cache[root].props.origin[2] - cache[grid_root].props.origin[2])
                % ROW_HEIGHT = 0)
    /\ [][IF lastOp'.op \in Moves /\ wstatus' = "ok" /\ lastMove'.found.hit
          THEN LET dy == cache'[grid_root].props.origin[2]
                           - cache[grid_root].props.origin[2]
                   tile == Selected(cache', rows', selected_tile')
                   new_tile_y == cache'[tile].props.origin[2] - dy
                   middle == TruncDiv(cache[root].props.bounds[2], 2)
               IN IF selected_tile'[1] > selected_tile[1]
                  THEN dy = (IF new_tile_y - TILE_HEIGHT > middle
                             THEN -ROW_HEIGHT ELSE 0)
                  ELSE IF selected_tile'[1] < selected_tile[1]
                  THEN dy = (IF /\ new_tile_y + TILE_HEIGHT < middle
                                /\ cache[grid_root].props.origin[2]
                                      < cache[root].props.origin[2]
                             THEN ROW_HEIGHT ELSE 0)
                  ELSE dy = 0
          ELSE grid_root' = grid_root =>
                  cache'[grid_root].props.origin = cache[grid_root].props.origin]_vars

\* A move_up to row 0 found the grid anchor at the root's y and did not scroll,
\* although the tile it selected lies above the middle of the viewport.
C23_Witness ==
    /\ lastOp.op = "move_up"
    /\ wstatus = "ok"
    /\ lastMove.found.hit
    /\ selected_tile[1] = 0
    /\ lastMove.found.prev # Selected(cache, rows, selected_tile)
    /\ cache[grid_root].props.origin[2] = cache[root].props.origin[2]
    /\ cache[Selected(cache, rows, selected_tile)].props.origin[2] + TILE_HEIGHT
          < TruncDiv(cache[root].props.bounds[2], 2)

\* The width of a column of the grid: one step of a row's horizontal scroll.
COLUMN_WIDTH == TILE_WIDTH + TILE_MARGIN

\* C24: in a move, the scroll offset of a row changes only if the anchor of that
\* row is translated in the same move, by one COLUMN_WIDTH to the side the offset
\* moves to, and then by one unit; a move_right whose newly selected tile would
\* reach beyond the right edge of the viewport changes the offset of its row by
\* one unit, and a move whose newly selected tile stays within the viewport leaves
\* every offset as it is.
C24_HorizontalScroll ==
    [][(lastOp'.op \in Moves /\ wstatus' = "ok") =>
          /\ Len(rows') = Len(rows)
          /\ \A i \in 1..Len(rows) :
                LET dx == cache'[rows[i][1]].props.origin[1]
                            - cache[rows[i][1]].props.origin[1]
                    doff == rows'[i][2] - rows[i][2]
                IN doff # 0 => (doff \in {-1, 1} /\ dx = doff * COLUMN_WIDTH)
          /\ lastMove'.found.hit =>
                LET tile == Selected(cache', rows', selected_tile')
                    anchor == cache'[tile].parent
                    new_tile_x == cache'[tile].props.origin[1]
                                    - (cache'[anchor].props.origin[1]
                                         - cache[anchor].props.origin[1])
                    row == selected_tile'[1] + 1
                IN /\ (/\ lastOp'.op = "move_right"
                        /\ new_tile_x + TILE_WIDTH > cache[root].props.bounds[1]) =>
                          rows'[row][2] = rows[row][2] - 1
                   /\ (/\ new_tile_x >= cache[root].props.origin[1]
                        /\ new_tile_x + TILE_WIDTH <= cache[root].props.bounds[1]) =>
                          rows' = rows
          /\ ~lastMove'.found.hit => rows' = rows]_vars

\* C25: with the viewport unchanged, n move_right keys that each selected a tile,
\* followed by n move_left keys, starting from the selection (0, 0) initialize
\* made, end with column 0 selected, the scroll offset of the row as initialize
\* left it, and the anchor of the row at the x it had then (n = 1 .. MaxTiles - 1,
\* the spec's example being n = 3).
C25_RoundTrip ==
    (/\ wstatus = "ok"
     /\ lastMove.trip.on
     /\ lastMove.trip.rights >= 1
     /\ lastMove.trip.lefts = lastMove.trip.rights) =>
       /\ selected_tile = <<0, 0>>
       /\ rows[1][2] = lastMove.trip.offset
       /\ cache[rows[1][1]].props.origin[1] = lastMove.trip.x

\* Three move_right keys and three move_left keys brought the selection back to
\* column 0, the row having been scrolled on the way.
C25_Witness ==
    /\ wstatus = "ok"
    /\ lastMove.trip.on
    /\ lastMove.trip.rights = 3
    /\ lastMove.trip.lefts = 3
    /\ lastMove.trip.scrolled
    /\ selected_tile = <<0, 0>>

\* The widgets that carry a border.
Bordered(c) == {n \in DOMAIN c : c[n].props.border # NoBorder}

\* initialize has returned Ok and no call has panicked since.
Initialized == wstatus = "ok" /\ pc.at \notin {"new", "failed"}

\* C22: once initialize has returned, and after any sequence of moves, exactly one
\* widget carries a border, and it is the tile at child index selected_tile.column
\* of the anchor of row selected_tile.row.
C22_SingleHighlight ==
    Initialized =>
       /\ InRange(rows, selected_tile[1])
       /\ InRange(get_children_of(cache, rows[selected_tile[1] + 1][1]), selected_tile[2])
       /\ Bordered(cache) = {Selected(cache, rows, selected_tile)}

(***************************************************************************)
(* RefCell borrows of the widgets  (src/src/app/widget.rs:205-221)         *)
(***************************************************************************)

InitBorrows == borrows = [n \in 0..MaxNodes |-> NoBorrow]

\* RefCell::borrow(): [cell |-> the borrow state after the call, ok |-> FALSE iff
\* the call panicked ("already mutably borrowed")].
borrow(cell) ==
    IF cell.mut > 0 THEN [cell |-> cell, ok |-> FALSE]
    ELSE [cell |-> [cell EXCEPT !.shared = @ + 1], ok |-> TRUE]

\* Faulty variant: the mutable borrow is granted without looking at the guards alive.
borrow_mut_Unchecked(cell) == [cell |-> [cell EXCEPT !.mut = @ + 1], ok |-> TRUE]

\* RefCell::borrow_mut(): panics ("already borrowed") while any guard is alive.
borrow_mut(cell) ==
    IF cell.mut > 0 \/ cell.shared > 0 THEN [cell |-> cell, ok |-> FALSE]
    ELSE [cell |-> [cell EXCEPT !.mut = @ + 1], ok |-> TRUE]

\* The variables a call on the RefCell of a widget leaves, given what borrow() or
\* borrow_mut() answered.
Borrowed(op, id, r) ==
    /\ borrows' = [borrows EXCEPT ![id] = r.cell]
    /\ wstatus' = IF r.ok THEN "ok" ELSE "panicked"
    /\ lastOp' = [op |-> op, id |-> id, d |-> <<0, 0>>]
    /\ UNCHANGED <<cache, next_id, insertLog, nTranslates, drawLog>>
    /\ UNCHANGED <<fvars, mvars, ovars, pvars>>

\* self.cache[&id] with an id that is not in the map: the index panics.
NoSuchWidget(op, id) ==
    /\ wstatus' = "panicked"
    /\ lastOp' = [op |-> op, id |-> id, d |-> <<0, 0>>]
    /\ UNCHANGED <<cache, next_id, insertLog, nTranslates, drawLog, borrows>>
    /\ UNCHANGED <<fvars, mvars, ovars, pvars>>

\* Widgets::get(id): the Ref returned stays alive until the caller drops it.
Get(id) ==
    /\ wstatus = "ok"
    /\ borrows[id].shared < MaxRefs
    /\ IF id \in DOMAIN cache THEN Borrowed("get", id, borrow(borrows[id]))
       ELSE NoSuchWidget("get", id)

\* Widgets::get_mut(id)
GetMut(id) ==
    /\ wstatus = "ok"
    /\ IF id \in DOMAIN cache THEN Borrowed("get_mut", id, borrow_mut(borrows[id]))
       ELSE NoSuchWidget("get_mut", id)

\* The caller drops a Ref<W>.
DropRef(id) ==
    /\ wstatus = "ok"
    /\ borrows[id].shared > 0
    /\ borrows' = [borrows EXCEPT ![id].shared = @ - 1]
    /\ lastOp' = [op |-> "drop_ref", id |-> id, d |-> <<0, 0>>]
    /\ UNCHANGED <<cache, next_id, wstatus, insertLog, nTranslates, drawLog>>
    /\ UNCHANGED <<fvars, mvars, ovars, pvars>>

\* The caller drops a RefMut<W>.
DropRefMut(id) ==
    /\ wstatus = "ok"
    /\ borrows[id].mut > 0
    /\ borrows' = [borrows EXCEPT ![id].mut = @ - 1]
    /\ lastOp' = [op |-> "drop_ref_mut", id |-> id, d |-> <<0, 0>>]
    /\ UNCHANGED <<cache, next_id, wstatus, insertLog, nTranslates, drawLog>>
    /\ UNCHANGED <<fvars, mvars, ovars, pvars>>

\* The holder of a RefMut<W> calls a setter on the widget: set_hidden(hidden).
SetHidden(id, hidden) ==
    /\ wstatus = "ok"
    /\ borrows[id].mut > 0
    /\ hidden # cache[id].props.hidden
    /\ cache' = [cache EXCEPT ![id].props.hidden = hidden]
    /\ lastOp' = [op |-> "set_hidden", id |-> id, d |-> <<0, 0>>]
    /\ UNCHANGED <<next_id, wstatus, insertLog, nTranslates, drawLog, borrows>>
    /\ UNCHANGED <<fvars, mvars, ovars, pvars>>

\* Widgets::insert takes &mut self: no Ref or RefMut of the cache can be alive.
InsertUnborrowed(hidden, parent) ==
    /\ \A n \in DOMAIN borrows : borrows[n] = NoBorrow
    /\ Insert(hidden, parent)

NextBorrow ==
    \/ \E hidden \in BOOLEAN, parent \in 0..(MaxNodes - 1) : InsertUnborrowed(hidden, parent)
    \/ \E id \in 0..(MaxNodes - 1) : Get(id)
    \/ \E id \in 0..(MaxNodes - 1) : GetMut(id)
    \/ \E id \in 0..(MaxNodes - 1) : DropRef(id)
    \/ \E id \in 0..(MaxNodes - 1) : DropRefMut(id)
    \/ \E id \in 0..(MaxNodes - 1), hidden \in BOOLEAN : SetHidden(id, hidden)

\* C16: no widget has two RefMut guards alive, nor a RefMut together with a Ref;
\* a get_mut(id) made while any guard of id is alive, and a get(id) made while a
\* RefMut of id is alive, panics; a get or get_mut that does not panic returns the
\* guard; and neither call changes a widget or the tree.
C16_BorrowsExclusive ==
    /\ [](\A n \in DOMAIN borrows :
             borrows[n].mut <= 1 /\ (borrows[n].mut = 1 => borrows[n].shared = 0))
    /\ [][lastOp'.op \in {"get", "get_mut"} =>
            LET id == lastOp'.id
                conflict == IF lastOp'.op = "get" THEN borrows[id].mut > 0
                            ELSE borrows[id].mut > 0 \/ borrows[id].shared > 0
            IN /\ cache' = cache /\ next_id' = next_id
               /\ \A n \in DOMAIN borrows : n # id => borrows'[n] = borrows[n]
               /\ IF id \notin DOMAIN cache \/ conflict
                  THEN wstatus' = "panicked" /\ borrows' = borrows
                  ELSE /\ wstatus' = "ok"
                       /\ borrows'[id] =
                            IF lastOp'.op = "get"
                            THEN [borrows[id] EXCEPT !.shared = @ + 1]
                            ELSE [borrows[id] EXCEPT !.mut = 1]]_vars

\* A get_mut has panicked on a widget of which two Refs are alive, while another
\* widget is mutably borrowed.
C16_Witness ==
    /\ wstatus = "panicked"
    /\ lastOp.op = "get_mut"
    /\ lastOp.id \in DOMAIN cache
    /\ borrows[lastOp.id].shared = 2
    /\ \E n \in DOMAIN cache : borrows[n].mut = 1


(***************************************************************************)
(* The older cache  (src/src/widget.rs)                                    *)
(***************************************************************************)

\* Widgets::new(root_widget, textures)
InitOld ==
    /\ old_cache = (root :> [parent |-> root, children |-> <<>>])
    /\ old_next_id = 1
    /\ old_ret = [op |-> "new", parent |-> root, id |-> root, some |-> TRUE]

\* Faulty variant: the identifier is consumed although the parent is unknown.
old_insert_ConsumesId(c, nid, parent) ==
    IF parent \in DOMAIN c
    THEN [c |-> [n \in DOMAIN c \cup {nid} |->
                    IF n = nid THEN [parent |-> parent, children |-> <<>>]
                    ELSE IF n = parent THEN [c[n] EXCEPT !.children = Append(@, nid)]
                    ELSE c[n]],
          next_id |-> nid + 1, some |-> TRUE, id |-> nid]
    ELSE [c |-> c, next_id |-> nid + 1, some |-> FALSE, id |-> nid]

\* Widgets::insert(widget, parent) -> Option<WidgetId> on cache c with next_id nid:
\* the cache and next_id after the call, and what it returned.
old_insert(c, nid, parent) ==
    IF parent \in DOMAIN c
    THEN [c |-> [n \in DOMAIN c \cup {nid} |->
                    IF n = nid THEN [parent |-> parent, children |-> <<>>]
                    ELSE IF n = parent THEN [c[n] EXCEPT !.children = Append(@, nid)]
                    ELSE c[n]],
          next_id |-> nid + 1, some |-> TRUE, id |-> nid]
    ELSE [c |-> c, next_id |-> nid, some |-> FALSE, id |-> nid]

\* A call of insert on the older cache.
OldInsert(parent) ==
    /\ parent \notin DOMAIN old_cache \/ old_next_id < MaxNodes
    /\ \E r \in {old_insert(old_cache, old_next_id, parent)} :
          /\ old_cache' = r.c
          /\ old_next_id' = r.next_id
          /\ old_ret' = [op |-> "insert", parent |-> parent, id |-> r.id, some |-> r.some]
    /\ UNCHANGED <<wvars, fvars, mvars, bvars, pvars>>

\* Both caches, with parents known and unknown.
NextInsert ==
    \/ \E hidden \in BOOLEAN, parent \in 0..MaxNodes : Insert(hidden, parent)
    \/ \E parent \in 0..MaxNodes : OldInsert(parent)

\* C17: an insert whose parent is not in the cache fails, by returning None in the
\* older cache and by panicking in the newer one, and an insert whose parent is in
\* the cache does not fail; the failed insert leaves the cache as it was: no node
\* added, no child list changed, next_id not consumed.
C17_InsertUnknownParent ==
    /\ [][(old_ret'.op = "insert" /\ (old_ret' # old_ret \/ old_cache' # old_cache)) =>
            /\ old_ret'.some <=> old_ret'.parent \in DOMAIN old_cache
            /\ ~old_ret'.some => old_cache' = old_cache /\ old_next_id' = old_next_id
            /\ old_ret'.some =>
                  /\ old_ret'.id = old_next_id /\ old_next_id' = old_next_id + 1
                  /\ DOMAIN old_cache' = DOMAIN old_cache \cup {old_ret'.id}]_vars
    /\ [][lastOp' # lastOp =>
            IF lastOp'.op = "insert_panic"
            THEN /\ lastOp'.id \notin DOMAIN cache
                 /\ wstatus' = "panicked"
                 /\ cache' = cache /\ next_id' = next_id /\ insertLog' = insertLog
            ELSE /\ lastOp'.op = "insert"
                 /\ cache'[lastOp'.id].parent \in DOMAIN cache
                 /\ wstatus' = "ok"
                 /\ next_id' = next_id + 1]_vars

\* Both caches hold a child of the root, and the last insert into each named a
\* parent that is not there: the older one returned None, the newer one panicked.
C17_Witness ==
    /\ old_ret.op = "insert" /\ ~old_ret.some
    /\ Cardinality(DOMAIN old_cache) >= 2
    /\ wstatus = "panicked" /\ lastOp.op = "insert_panic"
    /\ Cardinality(DOMAIN cache) >= 2


(***************************************************************************)
(* The worker's task pool under many locators  (src/src/fetcher.rs:108-163) *)
(*                                                                         *)
(* fetch_files spawns one process() task on the LocalSet for every request *)
(* it receives (lines 120-124).  The requester has one request outstanding *)
(* at a time, so each task has run up to its send before the next request  *)
(* arrives; what stays on the LocalSet are the tasks inside download_file. *)
(***************************************************************************)

Locators == 1..MaxLocators

\* The download_file calls in flight on the LocalSet.
InFlight == SumOver(pool_tasks, Locators)

\* The table entries whose download ended in an error and was not yet reported.
PoolFailed == {u \in Locators : pool_cache[u].st = "failed"}

\* A request for locator u is received, its task is spawned and polled: process()
\* up to the send, and on the vacant branch on into download_file.
PoolProcess(u) ==
    /\ LET r == process(pool_cache, u) IN
         /\ pool_cache' = r.c
         /\ pool_tasks' = IF r.download THEN [pool_tasks EXCEPT ![u] = @ + 1]
                          ELSE pool_tasks
    /\ UNCHANGED <<wvars, fvars, mvars, bvars, ovars>>

\* A download_file call for u returns Ok: line 160 stores the path (the file of
\* locator u is numbered u) and the task ends.
PoolDownloadOk(u) ==
    /\ pool_tasks[u] > 0
    /\ pool_cache' = complete(pool_cache, {}, u, u, TRUE).c
    /\ pool_tasks' = [pool_tasks EXCEPT ![u] = @ - 1]
    /\ UNCHANGED <<wvars, fvars, mvars, bvars, ovars>>

\* A download_file call for u returns Err: line 160 stores it and the task ends.
PoolDownloadFail(u) ==
    /\ pool_tasks[u] > 0
    /\ Cardinality(PoolFailed) < MaxFailures
    /\ pool_cache' = complete(pool_cache, {}, u, NoPath, FALSE).c
    /\ pool_tasks' = [pool_tasks EXCEPT ![u] = @ - 1]
    /\ UNCHANGED <<wvars, fvars, mvars, bvars, ovars>>

\* fetcher(), lines 110-113: an empty table and an empty LocalSet.
InitPool ==
    /\ pool_cache = [u \in Locators |-> Absent]
    /\ pool_tasks = [u \in Locators |-> 0]

NextPool ==
    \/ \E u \in Locators : PoolProcess(u)
    \/ \E u \in Locators : PoolDownloadOk(u)
    \/ \E u \in Locators : PoolDownloadFail(u)

Init == InitWidgets /\ InitFetcher /\ InitMenu /\ InitBorrows /\ InitOld /\ InitPool

InitApp == InitAppWidgets /\ InitFetcher /\ InitMenu /\ InitBorrows /\ InitOld /\ InitPool

SpecMenu == InitApp /\ [][NextMenu]_vars

SpecApp == InitApp /\ [][NextApp]_vars

SpecBorrow == Init /\ [][NextBorrow]_vars

SpecInsert == Init /\ [][NextInsert]_vars

SpecWidgets == Init /\ [][NextWidgets]_vars

SpecFetcher == Init /\ [][NextFetcher]_vars

SpecPool == Init /\ [][NextPool]_vars

\* The requester's steps and the worker's steps are scheduled by the operating
\* system and the runtime; a started transfer is assumed to end (with the body or
\* with an error).
FairSpecFetcher ==
    /\ Init
    /\ [][NextFetcher]_vars
    /\ WF_vars(Recv)
    /\ WF_vars(WorkerRecv)
    /\ WF_vars(\E i \in 1..Len(tasks) : Process(i))
    /\ WF_vars(\E i \in 1..Len(tasks) : DownloadBegin(i))
    /\ WF_vars(\E i \in 1..Len(tasks) : ResponseArrives(i) \/ DownloadFail(i) \/ DownloadOk(i))

\* The worker thread is scheduled by the operating system: it starts (or fails to),
\* its runtime polls the Abortable once abort() has woken it, and the thread that
\* drops the Fetcher returns from join() once the worker is gone.  Nothing is
\* assumed about the transfers or the requester: a download may hang for ever.
FairSpecDrop ==
    /\ Init
    /\ [][NextFetcher]_vars
    /\ WF_vars(WorkerStart \/ WorkerPanic)
    /\ WF_vars(WorkerExit)
    /\ WF_vars(DropJoin)

(***************************************************************************)
(* Properties of the fetch engine                                          *)
(***************************************************************************)

\* The tasks that are past the bookkeeping of process() and on their way through
\* download_file for url u.
Downloading(ts, u) == {i \in 1..Len(ts) : ts[i].url = u /\ ts[i].pc # "spawned"}

\* This step put a response on the response channel; Pushed is that response.
Pushes == Len(response_ch') = Len(response_ch) + 1
Pushed == response_ch'[Len(response_ch')]

\* C1: at every moment at most one download task is in flight per locator, and a
\* submit that finds the locator pending answers pending and starts no download.
C1_AtMostOneDownloadPerUrl ==
    /\ [](\A u \in Urls : Cardinality(Downloading(tasks, u)) <= 1)
    /\ [][\A u \in Urls :
            (Pushes /\ Pushed.url = u /\ download_cache[u].st = "pending") =>
                /\ Pushed.st = "pending"
                /\ started' = started
                /\ download_cache' = download_cache
                /\ Cardinality(Downloading(tasks', u)) = Cardinality(Downloading(tasks, u))]_vars

\* A submit for a locator that is being downloaded has returned pending without
\* starting a second download.
C1_Witness ==
    /\ last.st = "pending"
    /\ last.downloads = 0
    /\ caller.pc = "idle"
    /\ download_cache[last.url].st = "pending"
    /\ started[last.url] = 1
    /\ \E i \in 1..Len(tasks) : tasks[i].url = last.url /\ tasks[i].pc = "streaming"

\* C2: a submit for a locator with no table entry inserts a pending entry, starts
\* exactly one download task and answers pending; when the answer is sent the task
\* has not begun the download (no temporary file, no request on the wire).
C2_VacantStartsOneDownload ==
    [][\A u \in Urls :
        (Pushes /\ Pushed.url = u /\ download_cache[u].st = "absent") =>
            /\ Pushed = Response(u, "pending", NoPath)
            /\ download_cache' = [download_cache EXCEPT ![u] = PendingEntry]
            /\ started' = [started EXCEPT ![u] = @ + 1]
            /\ Downloading(tasks, u) = {}
            /\ Cardinality(Downloading(tasks', u)) = 1
            /\ \A i \in Downloading(tasks', u) :
                  tasks'[i].pc = "download" /\ tasks'[i].file = NoPath
            /\ files' = files]_vars

\* The requester already holds the pending answer of a first submit while the
\* download task has not yet begun its transfer.
C2_Witness ==
    /\ caller.pc = "idle"
    /\ last.st = "pending"
    /\ last.downloads = 1
    /\ \E i \in 1..Len(tasks) : tasks[i].url = last.url /\ tasks[i].pc = "download"

\* C3: while the worker runs, a ready entry never changes and no download is
\* started for its locator; every submit for it is answered ready with the entry's
\* path, and the file stays on disk.
C3_ReadyIsStable ==
    [][\A u \in Urls :
        (download_cache[u].st = "ready" /\ worker' = "running") =>
            /\ download_cache'[u] = download_cache[u]
            /\ started'[u] = started[u]
            /\ Downloading(tasks', u) = {}
            /\ download_cache[u].path \in files'
            /\ (Pushes /\ Pushed.url = u) =>
                  Pushed = Response(u, "ready", download_cache[u].path)]_vars

\* A submit for a downloaded locator has returned ready with the cached path.
C3_Witness ==
    /\ caller.pc = "idle"
    /\ last.st = "ready"
    /\ last.downloads = 0
    /\ download_cache[last.url] = ReadyEntry(last.path)
    /\ last.path \in files
    /\ started[last.url] = 1

\* C4 as stated: the submit that finds a failed entry evicts it and makes the fresh
\* download attempt on that same call.
C4_FailedRetriesOnSameCall ==
    [][\A u \in Urls :
        (Pushes /\ Pushed.url = u /\ download_cache[u].st = "failed") =>
            /\ download_cache'[u].st # "failed"
            /\ started'[u] = started[u] + 1]_vars

\* C4 amended: the submit that finds a failed entry evicts it and returns the
\* failure without starting a download; the next submit for the locator finds no
\* entry and starts exactly one new download attempt.
C4_FailedEvictedThenRetried ==
    [][\A u \in Urls :
        /\ (Pushes /\ Pushed.url = u /\ download_cache[u].st = "failed") =>
              /\ Pushed = Response(u, "failed", NoPath)
              /\ download_cache' = [download_cache EXCEPT ![u] = Absent]
              /\ started' = started
              /\ Downloading(tasks', u) = {}
        /\ (Pushes /\ Pushed.url = u /\ download_cache[u].st = "absent") =>
              /\ Pushed.st = "pending"
              /\ download_cache'[u].st = "pending"
              /\ started'[u] = started[u] + 1
              /\ Cardinality(Downloading(tasks', u)) = 1]_vars

\* The failure of a first attempt was returned, and a later submit for the same
\* locator has started the second attempt.
C4_Witness ==
    /\ caller.pc = "idle"
    /\ last.st = "pending"
    /\ last.downloads = 1
    /\ started[last.url] = 2
    /\ download_cache[last.url].st = "pending"

\* C5: once the engine has been dropped no download task is left and no temporary
\* file exists.
C5_NothingOutlivesEngine ==
    engine = "dropped" => (tasks = <<>> /\ files = {})

\* The engine was dropped while one download had succeeded and another was in
\* flight, each with its temporary file on disk.
C5_Witness ==
    /\ engine = "dropped"
    /\ Cardinality(dropSnap.files) = 2
    /\ \E u, v \in Urls : dropSnap.st[u] = "ready" /\ dropSnap.st[v] = "pending"

\* C6: a poll_fetch made after the worker thread terminated returns a fetch
\* failure to the requester; it does not abort the requester.
C6_WorkerGoneYieldsFailure ==
    /\ caller.pc # "panicked"
    /\ (worker \in Gone /\ engine = "alive" /\ caller.pc = "idle" /\ last.st # "none")
          => last.st = "failed"

\* C7: fetch polls the same locator again after every pending answer and returns
\* the first answer that is not pending; at most one download is started during one
\* call; and with the worker running the call returns.
C7_FetchReturnsFirstResult ==
    /\ [](caller.inFetch /\ request_ch # <<>> => Head(request_ch) = caller.url)
    /\ [](caller.inFetch => started[caller.url] - caller.base <= 1)
    /\ [](last.viaFetch => last.downloads <= 1)
    /\ [][(caller.inFetch /\ response_ch # <<>> /\ response_ch' = Tail(response_ch)) =>
            IF Head(response_ch).st = "pending"
            THEN /\ caller'.inFetch
                 /\ caller'.url = caller.url
                 /\ request_ch' = <<caller.url>>
            ELSE /\ ~caller'.inFetch
                 /\ caller'.pc = "idle"
                 /\ last' = [url |-> caller.url, st |-> Head(response_ch).st,
                             path |-> Head(response_ch).path, viaFetch |-> TRUE,
                             downloads |-> started[caller.url] - caller.base]]_vars
    /\ ((caller.inFetch /\ worker = "running") ~> ~caller.inFetch)

\* A fetch call has returned the path of a download it started itself.
C7_Witness ==
    /\ last.viaFetch
    /\ last.st = "ready"
    /\ last.downloads = 1
    /\ caller.pc = "idle"
    /\ download_cache[last.url] = ReadyEntry(last.path)

\* A process() task that is inside download_file (suspended on the transfer).
InTransfer(i) == tasks[i].pc \in {"download", "sending", "streaming"}

\* C29 (as the code has it): a task never is suspended with the table borrowed.  On
\* the vacant branch the borrow is released before the response send and the
\* transfer are awaited; on the occupied branches the borrow is kept while the send
\* is awaited, and whenever a task is about to run the response channel has room,
\* so that send completes without suspending and the borrow ends with the task.
C29_NeverSuspendedWithBorrow ==
    /\ \A i \in 1..Len(tasks) : InTransfer(i) => ~tasks[i].locked
    /\ lastSend.branch = "vacant" => ~lastSend.locked
    /\ \A i \in 1..Len(tasks) :
          tasks[i].pc = "spawned" => Len(response_ch) < MAX_CHANNEL_CAP

\* C29 as stated: in every branch of request processing the table borrow has been
\* released when the task awaits the response-channel send.
C29_BorrowReleasedBeforeSend ==
    lastSend.branch # "none" => ~lastSend.locked

\* A request for a locator whose download is in flight was answered on an occupied
\* branch, with the borrow alive at the send, while that download was suspended.
C29_Witness ==
    /\ lastSend.branch = "occupied"
    /\ lastSend.locked
    /\ lastSend.st = "pending"
    /\ \E i \in 1..Len(tasks) : InTransfer(i) /\ ~tasks[i].locked

\* The process() tasks that were spawned for a request and have not yet run.
Spawned == {i \in 1..Len(tasks) : tasks[i].pc = "spawned"}

\* The requests that have been sent and whose response has not been taken: on the
\* request channel, with a task that has not answered yet, or answered and waiting
\* on the response channel.
Unanswered == Len(request_ch) + Cardinality(Spawned) + Len(response_ch)

\* C30: request/response rendezvous.  Neither channel ever holds more than one
\* message and the caller has one unanswered request while it is inside poll_fetch
\* and none otherwise; a submit puts exactly one request on the request channel (with
\* no response pending) and returns on taking exactly one response; the worker
\* turns one received request into one task and one task into exactly one
\* response; and while the worker is running every request is answered and every
\* answer is taken, so every submit returns.
C30_Rendezvous ==
    /\ [](Len(request_ch) <= 1 /\ Len(response_ch) <= 1)
    /\ [](Unanswered = IF caller.pc = "recv" /\ worker \notin Gone THEN 1 ELSE 0)
    /\ [][request_ch' # request_ch /\ Len(request_ch') >= Len(request_ch) =>
            /\ request_ch = <<>>
            /\ request_ch' = <<caller'.url>>
            /\ caller'.pc = "recv"
            /\ response_ch' = <<>>
            /\ tasks' = tasks]_vars
    /\ [][caller.pc = "recv" /\ caller'.pc = "idle" =>
            /\ Len(response_ch) = 1
            /\ response_ch' = <<>>
            /\ last'.st = Head(response_ch).st
            /\ request_ch' = <<>>]_vars
    /\ [][Len(tasks') > Len(tasks) =>
            /\ Len(request_ch) = 1
            /\ request_ch' = <<>>
            /\ Len(tasks') = Len(tasks) + 1
            /\ tasks'[Len(tasks')].url = Head(request_ch)
            /\ Cardinality(Spawned') = 1
            /\ response_ch' = response_ch]_vars
    /\ [][response_ch' # response_ch /\ response_ch' # <<>> =>
            /\ response_ch = <<>>
            /\ Len(response_ch') = 1
            /\ Cardinality(Spawned) = 1
            /\ Spawned' = {}
            /\ \A i \in Spawned : response_ch'[1].url = tasks[i].url
            /\ request_ch' = request_ch]_vars
    /\ ((caller.pc = "recv" /\ worker = "running") ~> (response_ch # <<>>))
    /\ ((response_ch # <<>>) ~> (response_ch = <<>>))

\* A second submit for a locator is being answered while its download is in
\* flight: the response is on its channel, the request channel is empty again.
C30_Witness ==
    /\ caller.pc = "recv"
    /\ worker = "running"
    /\ request_ch = <<>>
    /\ Len(response_ch) = 1
    /\ response_ch[1].url = caller.url
    /\ Spawned = {}
    /\ \E i \in 1..Len(tasks) : InTransfer(i) /\ tasks[i].url = caller.url
    /\ started[caller.url] = 1
    /\ lastSend.branch = "occupied"

\* C31: a failed entry is reported by the first response for its locator and removed
\* by that same step, which starts no download; the response after that finds no
\* entry, starts a download and is pending.  An entry becomes failed only when a
\* download task for its locator ends, and while the worker runs it leaves the table
\* only with the step that reports it: an attempt's failure reaches a caller once.
C31_FailureReportedOnce ==
    [][\A u \in Urls :
        /\ (Pushes /\ Pushed.url = u /\ download_cache[u].st = "failed") =>
              /\ Pushed.st = "failed"
              /\ download_cache'[u].st = "absent"
              /\ started'[u] = started[u]
              /\ tasks' \in {RemoveAt(tasks, i) : i \in Spawned}
        /\ (Pushes /\ Pushed.url = u /\ Pushed.st = "failed") =>
              download_cache[u].st = "failed"
        /\ (download_cache[u].st = "failed" /\ download_cache'[u].st # "failed") =>
              \/ Pushes /\ Pushed = Response(u, "failed", NoPath)
              \/ worker' \in Gone
        /\ (download_cache[u].st # "failed" /\ download_cache'[u].st = "failed") =>
              /\ download_cache[u].st = "pending"
              /\ Cardinality(Downloading(tasks, u)) = 1
              /\ Downloading(tasks', u) = {}
              /\ ~Pushes
        /\ (Pushes /\ Pushed.url = u /\ download_cache[u].st = "absent"
                   /\ started[u] > 0) =>
              /\ Pushed.st = "pending"
              /\ download_cache'[u].st = "pending"
              /\ started'[u] = started[u] + 1]_vars

\* A submit has returned the failure of the only attempt made for its locator and
\* the entry is gone.
C31_Witness ==
    /\ caller.pc = "idle"
    /\ last.st = "failed"
    /\ last.downloads = 0
    /\ started[last.url] = 1
    /\ download_cache[last.url] = Absent
    /\ Downloading(tasks, last.url) = {}

\* The changes of one entry's status that process() and the completion write make.
EntrySteps ==
    {<<"absent", "pending">>, <<"pending", "ready">>, <<"pending", "failed">>,
     <<"failed", "absent">>}

\* C32: while the worker runs an entry changes only along absent -> pending,
\* pending -> ready, pending -> failed and failed -> absent (so a ready entry never
\* changes and a pending entry is never removed); the entry of a locator with a
\* download task is pending, and the step that ends a download task finds the entry
\* pending and leaves it ready or failed.
C32_EntryTransitions ==
    /\ [](\A u \in Urls : Downloading(tasks, u) # {} => download_cache[u].st = "pending")
    /\ [][worker' = "running" =>
            \A u \in Urls :
               /\ download_cache'[u] # download_cache[u] =>
                     <<download_cache[u].st, download_cache'[u].st>> \in EntrySteps
               /\ download_cache[u].st = "ready" => download_cache'[u] = download_cache[u]
               /\ (Downloading(tasks, u) # {} /\ Downloading(tasks', u) = {}) =>
                     /\ download_cache[u].st = "pending"
                     /\ download_cache'[u].st \in {"ready", "failed"}]_vars

\* A locator has gone round the whole cycle: its first download failed, the failure
\* was reported and evicted, and the second download has ended with the file.
C32_Witness ==
    /\ worker = "running"
    /\ \E u \in Urls :
          /\ started[u] = 2
          /\ download_cache[u].st = "ready"
          /\ download_cache[u].path \in files
          /\ Downloading(tasks, u) = {}

\* C33: dropping the engine terminates.  Once Drop has called abort() the worker
\* thread exits and join() returns, whatever the download tasks do (no progress of
\* any transfer is assumed) and with no further request; the worker is then gone
\* for good and the pool and the table are empty.
C33_DropTerminates ==
    /\ ((engine = "dropping") ~> (engine = "dropped"))
    /\ (aborted ~> (worker \in Gone))
    /\ [](engine = "dropped" => worker \in Gone /\ tasks = <<>>)
    /\ [][engine = "dropped" => engine' = "dropped" /\ worker' = worker]_vars

\* The engine was dropped, and the join returned, while a download was in flight:
\* its entry was pending when Drop began and the worker exited through the abort.
C33_Witness ==
    /\ engine = "dropped"
    /\ worker = "exited"
    /\ \E u \in Urls : dropSnap.st[u] = "pending" /\ started[u] = 1
    /\ dropSnap.files # {}
    /\ tasks = <<>>

\* C34: the scroll offset of every row is zero or negative in every reachable
\* state.
C34_OffsetsNonPositive ==
    \A r \in 1..Len(rows) : rows[r][2] <= 0

\* The on-screen x at which the tile at child index j of row r rests in cache c:
\* the row anchor's x plus j columns.
SlotX(c, rs, r, j) == c[rs[r + 1][1]].props.origin[1] + j * COLUMN_WIDTH

\* C35: a move_up or move_down that selects a tile of another row selects the
\* child of the destination row that rests at the on-screen x of the tile selected
\* before, and stores that child's index as the column of the selection.
C35_SameVisibleSlot ==
    [][(/\ lastOp'.op \in {"move_up", "move_down"}
        /\ wstatus' = "ok"
        /\ lastMove'.found.hit
        /\ selected_tile'[1] # selected_tile[1]) =>
          /\ selected_tile' = <<lastMove'.row, lastMove'.found.index>>
          /\ InRange(get_children_of(cache', rows'[selected_tile'[1] + 1][1]),
                     selected_tile'[2])
          /\ SlotX(cache', rows', selected_tile'[1], selected_tile'[2])
                = SlotX(cache, rows, selected_tile[1], selected_tile[2])]_vars

\* C36: in every reachable state the scroll offset stored for a row, times the
\* column width, is the horizontal displacement of the row's anchor from the x
\* that initialize gave it (the label's x, RIGHT_MARGIN).
C36_OffsetTracksAnchor ==
    \A r \in 1..Len(rows) :
       rows[r][2] * COLUMN_WIDTH = cache[rows[r][1]].props.origin[1] - RIGHT_MARGIN

\* C37: initialize and every move return without an index out of range, and once
\* initialize has returned the selection pair names an existing row and an
\* existing child of that row's anchor, whatever the document.
C37_SelectionInRange ==
    /\ wstatus # "panicked"
    /\ pc.at \notin {"new", "failed"} =>
          /\ InRange(rows, selected_tile[1])
          /\ InRange(get_children_of(cache, rows[selected_tile[1] + 1][1]),
                     selected_tile[2])

\* C38: nothing the application does (initialize, the moves with their translates,
\* the fullscreen switch, the ticks and the renders) is refused a borrow of a
\* widget: no call aborts.
C38_NoBorrowAbort ==
    wstatus # "panicked"

\* A move has selected again the tile that was selected already, which it borrowed
\* mutably twice, in a row whose anchor and tiles a translate has moved.
C38_Witness ==
    /\ wstatus = "ok"
    /\ lastOp.op \in Moves
    /\ lastMove.found.hit
    /\ lastMove.found.prev = Selected(cache, rows, selected_tile)
    /\ rows[selected_tile[1] + 1][2] < 0

\* C39: the response a submit returns is the status of the locator passed to it.
\* A response on the response channel is the one process() computes from the table
\* entry of its own locator, it is for the locator of the call the requester is
\* inside, and the call that takes it returns it as the status of that locator,
\* whatever the download tasks of other locators are doing meanwhile.
C39_ResponseMatchesRequest ==
    /\ [](response_ch # <<>> => (caller.pc = "recv" /\ Head(response_ch).url = caller.url))
    /\ [](\A i \in Spawned : tasks[i].url = caller.url)
    /\ [][Pushes =>
            /\ \A i \in Spawned : Pushed.url = tasks[i].url
            /\ Pushed = process(download_cache, Pushed.url).resp
            /\ Pushed.st = IF download_cache[Pushed.url].st = "absent" THEN "pending"
                           ELSE download_cache[Pushed.url].st]_vars
    /\ [][(caller.pc = "recv" /\ caller'.pc = "idle") =>
            /\ last'.url = caller.url
            /\ last'.st = Head(response_ch).st
            /\ last'.path = Head(response_ch).path]_vars

\* A submit for one locator has returned ready with its file while the download
\* of the other locator, requested before, is still in flight.
C39_Witness ==
    /\ caller.pc = "idle"
    /\ last.st = "ready"
    /\ download_cache[last.url] = ReadyEntry(last.path)
    /\ \E u \in Urls \ {last.url} :
          /\ download_cache[u].st = "pending"
          /\ Downloading(tasks, u) # {}

====
